---- MODULE Spec2Model ----
(***************************************************************************)
(* Verification model of the schedule_manager scheduling pipeline:         *)
(* problem analysis, adaptive penalty selection, the CP solve and the      *)
(* persistence of its result by the REST view, the Celery task and the     *)
(* load_schedule_from_json command.                                        *)
(*                                                                         *)
(* Dates are day numbers.  Floating point quotients are kept as exact      *)
(* fractions [num, den]; every comparison the code makes against a decimal *)
(* literal (0.4, 1.1, 1.3, 1.5) is made by cross multiplication, which     *)
(* agrees with IEEE double comparison for all operands below 10^14.        *)
(***************************************************************************)
EXTENDS Integers, Sequences, FiniteSets, TLC

(* ------------------------------ bounds -------------------------------- *)
MaxDays == 5          \* longest window analysed
MaxSoldiers == 3      \* roster size of the analysis runs
MaxRequired == 2      \* largest min_required_soldiers_per_day analysed
SolveDays == 4        \* window length of the solved instances

VARIABLES
    pc,                  \* position of the running handler
    caller,              \* the entry point: "task", "view", "cli", "stateless", ...

    start_date,          \* SchedulingRun.start_date
    end_date,            \* SchedulingRun.end_date
    scheduling_run,      \* the policy fields of the SchedulingRun row
    soldiers_db,         \* Soldier rows with their SoldierConstraint dates
    algorithm_soldiers,  \* the AlgorithmSoldier list handed to the solver
    analysis,            \* result of the problem analysis
    adaptive_params,     \* result of the parameter adapter
    solver_config,       \* constructor defaults of SmartScheduleSoldiers
    solve_successful,    \* FALSE when scheduler.solve() raised
    solver_status,       \* the cp_model status solve() returned
    solution_data,       \* the schedule solve() returned, or NoData
    shortage,            \* value of the shortage slack of each day
    assignments,         \* Assignment rows of the run
    run_status,          \* SchedulingRun.status as persisted
    output,              \* the JSON document an export wrote, or NoOutput
    exit_code,           \* exit code of a command line driver, or NoExit
    retries,             \* self.request.retries of the task's attempt
    countdown,           \* delay of the retry the attempt scheduled, if any
    result,              \* what the task's attempt returned, or NoResult
    writers,             \* the handlers running side by side, by process
    tables               \* the SchedulingRun and Assignment tables they share

vars == <<pc, caller, start_date, end_date, scheduling_run, soldiers_db,
          algorithm_soldiers, analysis, adaptive_params, solver_config,
          solve_successful, solver_status, solution_data, shortage,
          assignments, run_status, output, exit_code, retries, countdown,
          result, writers, tables>>

(* ------------------------------ helpers ------------------------------- *)
None == {}                       \* a Python None held in an optional field
Some(v) == {v}

RECURSIVE SumSeq(_)
SumSeq(s) == IF s = <<>> THEN 0 ELSE Head(s) + SumSeq(Tail(s))

CountSeq(s, P(_)) == Cardinality({i \in DOMAIN s : P(s[i])})

\* dict.update(): keys of u are added or overwritten, the others are kept
DictUpdate(d, u) ==
    [k \in (DOMAIN d) \cup (DOMAIN u) |-> IF k \in DOMAIN u THEN u[k] ELSE d[k]]

\* a / b as an exact fraction (b > 0)
Frac(a, b) == [num |-> a, den |-> b]
FracLess(x, n, d) == x.num * d < n * x.den          \* x < n/d
FracEq(x, y) == x.num * y.den = y.num * x.den

(* ---------------------- soldier preparation --------------------------- *)
\* AlgorithmSoldier(id, name, unavailable_days, ...): raw_constraints holds
\* the dates given as unavailable_days
AlgorithmSoldier(id, name, unavailable_days, exceptional, weekend_only) ==
    [id |-> id, name |-> name, raw_constraints |-> unavailable_days,
     is_exceptional_output |-> exceptional,
     is_weekend_only_soldier_flag |-> weekend_only,
     max_base_days_override |-> None,
     max_home_days_override |-> None]

\* the constraint dates of a soldier that lie inside the window
soldier_constraints_datesOpen(s_model, sd, ed) ==
    {d \in s_model.constraints : sd < d /\ d < ed}
soldier_constraints_datesAll(s_model, sd, ed) == s_model.constraints
soldier_constraints_dates(s_model, sd, ed) ==
    {d \in s_model.constraints : sd <= d /\ d <= ed}

PrepareSoldiers(db, sd, ed) ==
    [i \in DOMAIN db |->
        AlgorithmSoldier(i, db[i].name, soldier_constraints_dates(db[i], sd, ed),
                         db[i].is_exceptional_output,
                         db[i].is_weekend_only_soldier_flag)]

(* ------------------------- problem analysis --------------------------- *)
\* constraints_ratio > 0.4, with constraints_ratio = len(raw_constraints) / total_days
HeavilyConstrained(soldier, total_days) ==
    /\ total_days > 0            \* a quotient by a negative count is <= 0
    /\ 5 * Cardinality(soldier.raw_constraints) > 2 * total_days

\* len(soldier.raw_constraints) / total_days raises ZeroDivisionError in the
\* loop over the soldiers when the window holds no day
AnalysisRaises(soldiers, sd, ed) ==
    Len(soldiers) > 0 /\ (ed - sd) + 1 = 0

\* total_available / required_total if required_total > 0 else 1.0
AvailabilityRatio(total_available, required_total) ==
    IF required_total > 0 THEN Frac(total_available, required_total)
                          ELSE Frac(1, 1)

DifficultyMut(heavily_constrained, availability_ratio) ==
    IF heavily_constrained >= 3 \/ FracLess(availability_ratio, 11, 10)
        THEN "APOCALYPTIC"
    ELSE IF heavily_constrained >= 1 \/ FracLess(availability_ratio, 15, 10)
        THEN "HARD"
    ELSE IF heavily_constrained >= 2 \/ FracLess(availability_ratio, 13, 10)
        THEN "EXTREME"
    ELSE "MEDIUM"
Difficulty(heavily_constrained, availability_ratio) ==
    IF heavily_constrained >= 3 \/ FracLess(availability_ratio, 11, 10)
        THEN "APOCALYPTIC"
    ELSE IF heavily_constrained >= 2 \/ FracLess(availability_ratio, 13, 10)
        THEN "EXTREME"
    ELSE IF heavily_constrained >= 1 \/ FracLess(availability_ratio, 15, 10)
        THEN "HARD"
    ELSE "MEDIUM"

analyze_problem_complexity_async(soldiers, sd, ed, min_required_soldiers) ==
    LET total_days == (ed - sd) + 1
        required_total == total_days * min_required_soldiers
        total_available ==
            SumSeq([i \in DOMAIN soldiers |->
                        total_days - Cardinality(soldiers[i].raw_constraints)])
        heavily_constrained ==
            CountSeq(soldiers, LAMBDA s : HeavilyConstrained(s, total_days))
        availability_ratio == AvailabilityRatio(total_available, required_total)
    IN  [total_days |-> total_days,
         total_soldiers |-> Len(soldiers),
         required_total |-> required_total,
         total_available |-> total_available,
         availability_ratio |-> availability_ratio,
         exceptional_soldiers |->
             CountSeq(soldiers, LAMBDA s : s.is_exceptional_output),
         weekend_soldiers |->
             CountSeq(soldiers, LAMBDA s : s.is_weekend_only_soldier_flag),
         heavily_constrained |-> heavily_constrained,
         difficulty |-> Difficulty(heavily_constrained, availability_ratio)]

\* SchedulingRunViewSet._analyze_problem_complexity: the same computation
analyze_problem_complexity(soldiers, sd, ed, min_required_soldiers) ==
    LET total_days == (ed - sd) + 1
        required_total == total_days * min_required_soldiers
        total_available ==
            SumSeq([i \in DOMAIN soldiers |->
                        total_days - Cardinality(soldiers[i].raw_constraints)])
        heavily_constrained ==
            CountSeq(soldiers, LAMBDA s : HeavilyConstrained(s, total_days))
        availability_ratio == AvailabilityRatio(total_available, required_total)
    IN  [total_days |-> total_days,
         total_soldiers |-> Len(soldiers),
         required_total |-> required_total,
         total_available |-> total_available,
         availability_ratio |-> availability_ratio,
         exceptional_soldiers |->
             CountSeq(soldiers, LAMBDA s : s.is_exceptional_output),
         weekend_soldiers |->
             CountSeq(soldiers, LAMBDA s : s.is_weekend_only_soldier_flag),
         heavily_constrained |-> heavily_constrained,
         difficulty |-> Difficulty(heavily_constrained, availability_ratio)]

(* ------------------------- parameter adapter -------------------------- *)
PenaltyTableMut(difficulty) ==
    IF difficulty = "APOCALYPTIC" THEN
        [flexible_daily_requirement |-> TRUE,
         penalty_one_day_block |-> 50000000, penalty_shortage |-> 5000000,
         penalty_no_work |-> 20000000, penalty_long_block |-> 200000,
         critical_penalty_long_block |-> 10000000]
    ELSE IF difficulty = "EXTREME" THEN
        [flexible_daily_requirement |-> TRUE,
         penalty_one_day_block |-> 30000000, penalty_shortage |-> 3000000,
         penalty_no_work |-> 15000000, penalty_long_block |-> 150000,
         critical_penalty_long_block |-> 7000000]
    ELSE IF difficulty = "HARD" THEN
        [flexible_daily_requirement |-> TRUE,
         penalty_one_day_block |-> 20000000, penalty_shortage |-> 7000000,
         penalty_no_work |-> 10000000, penalty_long_block |-> 100000,
         critical_penalty_long_block |-> 5000000]
    ELSE
        [flexible_daily_requirement |-> TRUE,
         penalty_one_day_block |-> 10000000, penalty_shortage |-> 1000000,
         penalty_no_work |-> 5000000, penalty_long_block |-> 50000,
         critical_penalty_long_block |-> 2000000]
\* the params.update({...}) argument of each branch
PenaltyTable(difficulty) ==
    IF difficulty = "APOCALYPTIC" THEN
        [flexible_daily_requirement |-> TRUE,
         penalty_one_day_block |-> 50000000, penalty_shortage |-> 5000000,
         penalty_no_work |-> 20000000, penalty_long_block |-> 200000,
         critical_penalty_long_block |-> 10000000]
    ELSE IF difficulty = "EXTREME" THEN
        [flexible_daily_requirement |-> TRUE,
         penalty_one_day_block |-> 30000000, penalty_shortage |-> 3000000,
         penalty_no_work |-> 15000000, penalty_long_block |-> 150000,
         critical_penalty_long_block |-> 7000000]
    ELSE IF difficulty = "HARD" THEN
        [flexible_daily_requirement |-> TRUE,
         penalty_one_day_block |-> 20000000, penalty_shortage |-> 2000000,
         penalty_no_work |-> 10000000, penalty_long_block |-> 100000,
         critical_penalty_long_block |-> 5000000]
    ELSE
        [flexible_daily_requirement |-> TRUE,
         penalty_one_day_block |-> 10000000, penalty_shortage |-> 1000000,
         penalty_no_work |-> 5000000, penalty_long_block |-> 50000,
         critical_penalty_long_block |-> 2000000]

get_adaptive_parameters_asyncMut(an, original_params) ==
    DictUpdate(PenaltyTable(an.difficulty),
               [min_required_soldiers_per_day |-> 0])
get_adaptive_parameters_async(an, original_params) ==
    DictUpdate(original_params, PenaltyTable(an.difficulty))

\* SchedulingRunViewSet._get_adaptive_parameters: the same table
get_adaptive_parameters(an, original_params) ==
    DictUpdate(original_params, PenaltyTable(an.difficulty))

\* original_params as both callers build it from the SchedulingRun row
original_params(run) ==
    [default_base_days_target |-> run.default_base_days_target,
     default_home_days_target |-> run.default_home_days_target,
     max_consecutive_base_days |-> run.max_consecutive_base_days,
     max_consecutive_home_days |-> run.max_consecutive_home_days,
     min_base_block_days |-> run.min_base_block_days,
     min_required_soldiers_per_day |-> run.min_required_soldiers_per_day,
     max_total_home_days |-> run.max_total_home_days,
     max_weekend_base_days_per_soldier |-> run.max_weekend_base_days_per_soldier]

(* ----------------------------- CP solver ------------------------------ *)
\* cp_model status codes of OR-tools, the values solve() returns
UNKNOWN == 0
MODEL_INVALID == 1
FEASIBLE == 2
INFEASIBLE == 3
OPTIMAL == 4
NoStatus == UNKNOWN - 1          \* solver_status = None
NoData == [soldiers |-> <<>>, daily_soldiers_count |-> <<>>]   \* falsy result

Max(a, b) == IF a >= b THEN a ELSE b
Min(a, b) == IF a <= b THEN a ELSE b
TheOne(S) == CHOOSE x \in S : TRUE

\* Soldier.get_effective_max_consecutive_base_days(default): the override
\* when one is set, the default otherwise
get_effective_max_consecutive_base_days(soldier, default) ==
    IF soldier.max_base_days_override # None
        THEN TheOne(soldier.max_base_days_override) ELSE default

get_effective_max_consecutive_home_days(soldier, default) ==
    IF soldier.max_home_days_override # None
        THEN TheOne(soldier.max_home_days_override) ELSE default

\* weekend-only people are capped by weekend_only_max_base as well
EffectiveMaxBase(soldier, policy) ==
    LET cap == get_effective_max_consecutive_base_days(
                   soldier, policy.max_consecutive_base_days)
    IN  IF soldier.is_weekend_only_soldier_flag
            THEN Min(cap, policy.weekend_only_max_base) ELSE cap

EffectiveMaxHome(soldier, policy) ==
    get_effective_max_consecutive_home_days(soldier, policy.max_consecutive_home_days)

\* number of days of lo..hi on which the row has value v
CountIn(row, lo, hi, v) == Cardinality({j \in lo..hi : row[j] = v})

\* H1: every unavailable day of the window is a Home day
H1(row, soldier, sd, ed) ==
    \A d \in soldier.raw_constraints : (sd <= d /\ d <= ed) => row[d] = 0

\* the sliding windows stop one day short of the window's end
ConsecutiveCapMut(row, cap, v, sd, ed) ==
    \A i \in sd..ed : (i + cap < ed) => CountIn(row, i, i + cap, v) <= cap
\* H3 / H4: every K = cap + 1 consecutive days hold at most K - 1 days of v
ConsecutiveCap(row, cap, v, sd, ed) ==
    \A i \in sd..ed : (i + cap <= ed) => CountIn(row, i, i + cap, v) <= cap

\* H5 as the forbidden triple Home, Base, Home only
H5Mut(row, min_block, allow_single, allow_edge, sd, ed) ==
    allow_single \/
    \A d \in sd..ed :
        (sd < d /\ d < ed) => ~(row[d - 1] = 0 /\ row[d] = 1 /\ row[d + 1] = 0)
\* H5: a Base run that starts on day d (after a Home day or at the window
\* start) runs for min_block days; a run cut by a window edge is exempt only
\* when allow_edge_short_blocks
H5(row, min_block, allow_single, allow_edge, sd, ed) ==
    allow_single \/
    \A d \in sd..ed :
        (row[d] = 1 /\ (d = sd \/ row[d - 1] = 0)) =>
            \/ allow_edge /\ d = sd
            \/ /\ \A j \in d..Min(d + min_block - 1, ed) : row[j] = 1
               /\ (d + min_block - 1 <= ed \/ allow_edge)

\* H6: total Home cap
H6(row, policy, sd, ed) ==
    policy.max_total_home_days = None \/
    CountIn(row, sd, ed, 0) <= TheOne(policy.max_total_home_days)

HardRow(row, soldier, policy, sd, ed) ==
    /\ H1(row, soldier, sd, ed)
    /\ ConsecutiveCap(row, EffectiveMaxBase(soldier, policy), 1, sd, ed)
    /\ ConsecutiveCap(row, EffectiveMaxHome(soldier, policy), 0, sd, ed)
    /\ H5(row, policy.min_base_block_days, policy.allow_single_day_blocks,
          policy.allow_edge_short_blocks, sd, ed)
    /\ H6(row, policy, sd, ed)

ValidRows(soldier, policy, sd, ed) ==
    {row \in [sd..ed -> {0, 1}] : HardRow(row, soldier, policy, sd, ed)}

\* all grids whose i-th row is taken from rows[i]
RECURSIVE GridsOf(_)
GridsOf(rows) ==
    IF rows = <<>> THEN {<<>>}
    ELSE LET n == Len(rows)
         IN  {Append(g, r) : g \in GridsOf(SubSeq(rows, 1, n - 1)), r \in rows[n]}

DayCount(grid, d) == Cardinality({i \in DOMAIN grid : grid[i][d] = 1})

\* H2: daily coverage, strict or with the shortage slack
H2Mut(grid, slack, policy, sd, ed) ==
    \A d \in sd..ed : DayCount(grid, d) + slack[d] >= 0
H2(grid, slack, policy, sd, ed) ==
    \A d \in sd..ed :
        /\ DayCount(grid, d) + slack[d] >= policy.min_required_soldiers_per_day
        /\ ~policy.flexible_daily_requirement => slack[d] = 0

NoSlack(sd, ed) == [d \in sd..ed |-> 0]
TightSlack(grid, policy, sd, ed) ==
    [d \in sd..ed |->
        IF policy.flexible_daily_requirement
            THEN Max(0, policy.min_required_soldiers_per_day - DayCount(grid, d))
            ELSE 0]

\* the values the shortage variables may take next to a grid
Slacks(grid, policy, sd, ed) ==
    {slack \in [sd..ed -> 0..policy.min_required_soldiers_per_day] :
        H2(grid, slack, policy, sd, ed)}

HardGrids(soldiers, policy, sd, ed) ==
    {grid \in GridsOf([i \in DOMAIN soldiers |->
                          ValidRows(soldiers[i], policy, sd, ed)]) :
        \E slack \in [sd..ed -> 0..policy.min_required_soldiers_per_day] :
            H2(grid, slack, policy, sd, ed)}

\* maximal Base runs of a row, as <<first, last>> pairs
BaseRuns(row, sd, ed) ==
    {<<a, b>> \in (sd..ed) \X (sd..ed) :
        /\ a <= b
        /\ \A j \in a..b : row[j] = 1
        /\ (a = sd \/ row[a - 1] = 0)
        /\ (b = ed \/ row[b + 1] = 0)}

\* soft objective: shortage, zero-work, short blocks, long-block softening
Objective(grid, slack, soldiers, policy, sd, ed) ==
    LET short(i) == Cardinality({r \in BaseRuns(grid[i], sd, ed) :
                        r[2] - r[1] + 1 < policy.min_base_block_days})
        long(i) == LET cap == EffectiveMaxBase(soldiers[i], policy)
                   IN  Cardinality({d \in sd..ed :
                           d + cap - 1 <= ed /\ CountIn(grid[i], d, d + cap - 1, 1) = cap})
    IN  policy.penalty_shortage * SumSeq([d \in 1..(ed - sd + 1) |-> slack[sd + d - 1]])
        + policy.penalty_no_work *
              Cardinality({i \in DOMAIN grid : CountIn(grid[i], sd, ed, 1) = 0})
        + (IF policy.allow_single_day_blocks
              THEN policy.penalty_one_day_block * SumSeq([i \in DOMAIN grid |-> short(i)])
              ELSE 0)
        + policy.penalty_long_block * SumSeq([i \in DOMAIN grid |-> long(i)])

\* Solution Projector: per-name schedules and the per-day head count
Project(grid, soldiers, sd, ed) ==
    [soldiers |->
        [name \in {soldiers[i].name : i \in DOMAIN soldiers} |->
            LET i == CHOOSE k \in DOMAIN soldiers :
                        /\ soldiers[k].name = name
                        /\ \A l \in DOMAIN soldiers : soldiers[l].name = name => l <= k
            IN  [schedule |-> [d \in sd..ed |-> IF grid[i][d] = 1 THEN "Base" ELSE "Home"],
                 total_base_days |-> CountIn(grid[i], sd, ed, 1),
                 total_home_days |-> CountIn(grid[i], sd, ed, 0)]],
     daily_soldiers_count |-> [d \in sd..ed |-> DayCount(grid, d)]]

(* ------------------------- running the solver ------------------------- *)
NoAnalysis == [difficulty |-> "NONE"]
NoParams == [flexible_daily_requirement |-> FALSE]

\* fallbacks of adaptive_params.get(key, default) in both callers
DefaultPenalties ==
    [penalty_one_day_block |-> 20000000, penalty_shortage |-> 2000000,
     penalty_no_work |-> 10000000, penalty_long_block |-> 100000,
     critical_penalty_long_block |-> 5000000]

\* the keyword arguments of SmartScheduleSoldiers(...) as the task and the
\* view pass them: the run's fields and the adaptive parameters
SchedulerArgsAdaptiveMut(run, params, config) ==
    [max_consecutive_base_days |-> run.max_consecutive_home_days,
     max_consecutive_home_days |-> run.max_consecutive_base_days,
     min_base_block_days |-> run.min_base_block_days,
     min_required_soldiers_per_day |-> run.min_required_soldiers_per_day,
     max_total_home_days |-> run.max_total_home_days,
     flexible_daily_requirement |-> params.flexible_daily_requirement,
     penalty_one_day_block |-> params.penalty_one_day_block,
     penalty_shortage |-> params.penalty_shortage,
     penalty_no_work |-> params.penalty_no_work,
     penalty_long_block |-> params.penalty_long_block,
     allow_single_day_blocks |-> config.allow_single_day_blocks,
     allow_edge_short_blocks |-> config.allow_edge_short_blocks,
     weekend_only_max_base |-> config.weekend_only_max_base]
SchedulerArgsAdaptive(run, params, config) ==
    [max_consecutive_base_days |-> run.max_consecutive_base_days,
     max_consecutive_home_days |-> run.max_consecutive_home_days,
     min_base_block_days |-> run.min_base_block_days,
     min_required_soldiers_per_day |-> run.min_required_soldiers_per_day,
     max_total_home_days |-> run.max_total_home_days,
     flexible_daily_requirement |-> params.flexible_daily_requirement,
     penalty_one_day_block |-> params.penalty_one_day_block,
     penalty_shortage |-> params.penalty_shortage,
     penalty_no_work |-> params.penalty_no_work,
     penalty_long_block |-> params.penalty_long_block,
     allow_single_day_blocks |-> config.allow_single_day_blocks,
     allow_edge_short_blocks |-> config.allow_edge_short_blocks,
     weekend_only_max_base |-> config.weekend_only_max_base]

\* the command passes the event's fields only; the rest are the defaults
SchedulerArgsCli(run, config) ==
    [max_consecutive_base_days |-> run.max_consecutive_base_days,
     max_consecutive_home_days |-> run.max_consecutive_home_days,
     min_base_block_days |-> run.min_base_block_days,
     min_required_soldiers_per_day |-> run.min_required_soldiers_per_day,
     max_total_home_days |-> None,
     flexible_daily_requirement |-> config.flexible_daily_requirement,
     penalty_one_day_block |-> DefaultPenalties.penalty_one_day_block,
     penalty_shortage |-> DefaultPenalties.penalty_shortage,
     penalty_no_work |-> DefaultPenalties.penalty_no_work,
     penalty_long_block |-> DefaultPenalties.penalty_long_block,
     allow_single_day_blocks |-> config.allow_single_day_blocks,
     allow_edge_short_blocks |-> config.allow_edge_short_blocks,
     weekend_only_max_base |-> config.weekend_only_max_base]

\* run_schedule_stateless passes the same keyword arguments, read from the
\* payload's schedule object
SchedulerArgsStateless(schedule, config) == SchedulerArgsCli(schedule, config)

SchedulerArgs ==
    IF caller = "cli" THEN SchedulerArgsCli(scheduling_run, solver_config)
    ELSE IF caller = "stateless"
        THEN SchedulerArgsStateless(scheduling_run, solver_config)
    ELSE SchedulerArgsAdaptive(scheduling_run, adaptive_params, solver_config)

\* the soldiers as the solver sees them: per-person overrides in effect
SolverSoldiers ==
    [i \in DOMAIN algorithm_soldiers |->
        [algorithm_soldiers[i] EXCEPT
            !.max_base_days_override = solver_config.overrides[i].base,
            !.max_home_days_override = solver_config.overrides[i].home]]

\* name.replace('"', '').replace("'", '').strip(), on the names the rosters
\* of this model use
StripQuotes(name) ==
    CASE name = "'s1'" -> "s1"
      [] name = "s\"2" -> "s2"
      [] name = " s2 " -> "s2"
      [] OTHER -> name

\* the loop "Clean soldier names": a blank name becomes Soldier_<id>, then
\* the quotes and the outer blanks are removed
CleanName(soldier) ==
    IF soldier.name \in {"", " "}
        THEN "Soldier_" \o ToString(soldier.id)
        ELSE StripQuotes(soldier.name)
CleanNames(soldiers) ==
    [i \in DOMAIN soldiers |->
        [soldiers[i] EXCEPT !.name = CleanName(soldiers[i])]]

(* ------------------------------ actions ------------------------------- *)
\* run_scheduling_algorithm_async up to the creation of the scheduler
TaskPrepare ==
    /\ pc = "start" /\ caller = "task"
    /\ run_status' = "IN_PROGRESS"
    /\ algorithm_soldiers' =
           CleanNames(PrepareSoldiers(soldiers_db, start_date, end_date))
    /\ ~AnalysisRaises(algorithm_soldiers', start_date, end_date)
    /\ analysis' = analyze_problem_complexity_async(
                       algorithm_soldiers', start_date, end_date,
                       scheduling_run.min_required_soldiers_per_day)
    /\ adaptive_params' =
           get_adaptive_parameters_async(analysis', original_params(scheduling_run))
    /\ pc' = "created"
    /\ UNCHANGED <<retries, countdown, result, writers, tables, caller, start_date, end_date, scheduling_run, soldiers_db,
                   solver_config, solve_successful, solver_status,
                   solution_data, shortage, assignments, output, exit_code>>

\* _handle_scheduling_run up to the creation of the scheduler
ViewPrepare ==
    /\ pc = "start" /\ caller = "view"
    /\ run_status' = "IN_PROGRESS"
    /\ algorithm_soldiers' =
           CleanNames(PrepareSoldiers(soldiers_db, start_date, end_date))
    /\ ~AnalysisRaises(algorithm_soldiers', start_date, end_date)
    /\ analysis' = analyze_problem_complexity(
                       algorithm_soldiers', start_date, end_date,
                       scheduling_run.min_required_soldiers_per_day)
    /\ adaptive_params' =
           get_adaptive_parameters(analysis', original_params(scheduling_run))
    /\ pc' = "created"
    /\ UNCHANGED <<retries, countdown, result, writers, tables, caller, start_date, end_date, scheduling_run, soldiers_db,
                   solver_config, solve_successful, solver_status,
                   solution_data, shortage, assignments, output, exit_code>>

\* load_schedule_from_json up to the creation of the scheduler, its Event,
\* Soldier and SchedulingRun rows taken as created: every constraint date of
\* the soldier is passed on, no analysis is made
CliPrepare ==
    /\ pc = "start" /\ caller = "cli"
    /\ Len(soldiers_db) > 0                     \* qs.exists()
    /\ run_status' = "IN_PROGRESS"
    /\ assignments' = {}
    /\ algorithm_soldiers' =
           [i \in DOMAIN soldiers_db |->
               AlgorithmSoldier(i, soldiers_db[i].name, soldiers_db[i].constraints,
                                soldiers_db[i].is_exceptional_output,
                                soldiers_db[i].is_weekend_only_soldier_flag)]
    /\ pc' = "created"
    /\ UNCHANGED <<retries, countdown, result, writers, tables, caller, start_date, end_date, scheduling_run, soldiers_db,
                   analysis, adaptive_params, solver_config, solve_successful,
                   solver_status, solution_data, shortage, output, exit_code>>

\* run_schedule_stateless up to the creation of the scheduler: the payload's
\* soldiers (held in soldiers_db, ids 1..n) with all their unavailable days;
\* nothing is stored
StatelessPrepare ==
    /\ pc = "start" /\ caller = "stateless"
    /\ Len(soldiers_db) > 0                     \* soldiers_in is not empty
    /\ algorithm_soldiers' =
           [i \in DOMAIN soldiers_db |->
               AlgorithmSoldier(i, soldiers_db[i].name, soldiers_db[i].constraints,
                                soldiers_db[i].is_exceptional_output,
                                soldiers_db[i].is_weekend_only_soldier_flag)]
    /\ pc' = "created"
    /\ UNCHANGED <<retries, countdown, result, writers, tables, caller, start_date, end_date, scheduling_run, soldiers_db,
                   analysis, adaptive_params, solver_config, solve_successful,
                   solver_status, solution_data, shortage, assignments,
                   run_status, output, exit_code>>

SolveReturn(data, status, slack) ==
    /\ solve_successful' = TRUE
    /\ solution_data' = data
    /\ solver_status' = status
    /\ shortage' = slack
    /\ pc' = "solved"
    /\ UNCHANGED <<retries, countdown, result, writers, tables, caller, start_date, end_date, scheduling_run, soldiers_db,
                   algorithm_soldiers, analysis, adaptive_params, solver_config,
                   assignments, run_status, output, exit_code>>

\* the search completes: an objective-minimal solution is returned
SolveOptimal ==
    /\ pc = "created"
    /\ \E policy \in {SchedulerArgs}, soldiers \in {SolverSoldiers} :
       \E grids \in {HardGrids(soldiers, policy, start_date, end_date)} :
       \E cost \in {[g \in grids |->
                       Objective(g, TightSlack(g, policy, start_date, end_date),
                                 soldiers, policy, start_date, end_date)]} :
       \E costs \in {{cost[g] : g \in grids}} :
       \E g \in {h \in grids : \A e \in costs : cost[h] <= e} :
           SolveReturn(Project(g, soldiers, start_date, end_date), OPTIMAL,
                       TightSlack(g, policy, start_date, end_date))

\* the search completes: no assignment satisfies the hard constraints
SolveInfeasible ==
    /\ pc = "created"
    /\ HardGrids(SolverSoldiers, SchedulerArgs, start_date, end_date) = {}
    /\ SolveReturn(NoData, INFEASIBLE, NoSlack(start_date, end_date))

\* the time budget ends first: nothing found yet, or any solution found so
\* far, whose slack variables hold any values the constraints admit
SolveBudgetExhausted ==
    /\ pc = "created"
    /\ \/ SolveReturn(NoData, UNKNOWN, NoSlack(start_date, end_date))
       \/ \E policy \in {SchedulerArgs}, soldiers \in {SolverSoldiers} :
          \E g \in HardGrids(soldiers, policy, start_date, end_date) :
          \E slack \in Slacks(g, policy, start_date, end_date) :
              SolveReturn(Project(g, soldiers, start_date, end_date),
                          FEASIBLE, slack)

\* the backend fails: solve() raises
SolveRaises ==
    /\ pc = "created"
    /\ solve_successful' = FALSE
    /\ solution_data' = NoData
    /\ solver_status' = NoStatus
    /\ shortage' = NoSlack(start_date, end_date)
    /\ pc' = "solved"
    /\ UNCHANGED <<retries, countdown, result, writers, tables, caller, start_date, end_date, scheduling_run, soldiers_db,
                   algorithm_soldiers, analysis, adaptive_params, solver_config,
                   assignments, run_status, output, exit_code>>

(* ------------------------ persisting the result ----------------------- *)
HebrewBase == "basis (he)"       \* the Hebrew status word the view looks for

Assignment(soldier, assignment_date, is_on_base) ==
    [soldier |-> soldier, assignment_date |-> assignment_date,
     is_on_base |-> is_on_base]

\* presence_map[date]: the names whose schedule has the given status word
PresenceMap(data, d, base_word) ==
    {name \in DOMAIN data.soldiers : data.soldiers[name].schedule[d] = base_word}

\* _save_assignments_async: one row per algorithm soldier and day
save_assignments_async(data, soldiers, sd, ed) ==
    {Assignment(soldiers[i].id, d, soldiers[i].name \in PresenceMap(data, d, "Base")) :
        i \in DOMAIN soldiers, d \in sd..ed}

\* the view's saving loop: as above, looking for the Hebrew status word
ViewSaveAssignments(data, soldiers, sd, ed) ==
    {Assignment(soldiers[i].id, d,
                soldiers[i].name \in PresenceMap(data, d, HebrewBase)) :
        i \in DOMAIN soldiers, d \in sd..ed}

\* the command's loop: the soldier is looked up by name with qs.get()
CliMatches(db, name) == {i \in DOMAIN db : db[i].name = name}
CliLookupRaises(data, db) ==
    \E name \in DOMAIN data.soldiers : Cardinality(CliMatches(db, name)) > 1
CliSaveAssignments(data, db, sd, ed) ==
    {Assignment(i, d, data.soldiers[db[i].name].schedule[d] = "Base") :
        i \in {k \in DOMAIN db : db[k].name \in DOMAIN data.soldiers},
        d \in sd..ed}

\* unique_together (scheduling_run, soldier, assignment_date): inserting the
\* rows next to the stored ones raises IntegrityError
Conflicts(rows, stored) ==
    \E a \in rows, b \in stored :
        a.soldier = b.soldier /\ a.assignment_date = b.assignment_date

\* solution_data and solver_status in [cp_model.OPTIMAL, cp_model.FEASIBLE]
TaskAccepts(data, status) == data # NoData /\ status \in {OPTIMAL, FEASIBLE}

\* solution_data and solve_successful
ViewAccepts(data, successful) == data # NoData /\ successful

\* solution_data and status_code in [1, 2]
CliAccepts(data, status) == data # NoData /\ status \in {1, 2}

NoOutput == [kind |-> "none"]
NoDb == [runs |-> <<>>, rows |-> {}]     \* the tables are not looked at
NoExit == 0 - 1                  \* the process has not exited

\* a handler ends: rows written, status saved; a command exits with code
Finish(rows, status, code) ==
    /\ pc = "solved"
    /\ assignments' = assignments \cup rows
    /\ run_status' = status
    /\ exit_code' = code
    /\ pc' = "done"
    /\ UNCHANGED <<retries, countdown, result, writers, tables, caller, start_date, end_date, scheduling_run, soldiers_db,
                   algorithm_soldiers, analysis, adaptive_params, solver_config,
                   solve_successful, solver_status, solution_data, shortage,
                   output>>

max_retries == 3                 \* @shared_task(bind=True, max_retries=3)
NoCountdown == 0                 \* the attempt scheduled no retry
NoResult == [success |-> FALSE, retries_exhausted |-> FALSE, returned |-> FALSE]
TaskResult(success, retries_exhausted) ==
    [success |-> success, retries_exhausted |-> retries_exhausted,
     returned |-> TRUE]

\* the handler's except clause retrying once more
TaskExceptOneMore ==
    /\ run_status' = "FAILURE"
    /\ IF retries <= max_retries
           THEN countdown' = 60 * (2 ^ retries) /\ result' = NoResult
           ELSE countdown' = NoCountdown /\ result' = TaskResult(FALSE, TRUE)
    /\ pc' = "done"
\* except Exception: FAILURE is stored; self.retry(countdown=60 * 2 ** retries)
\* is raised while retries are left, else the failure is returned
TaskExcept ==
    /\ run_status' = "FAILURE"
    /\ IF retries < max_retries
           THEN countdown' = 60 * (2 ^ retries) /\ result' = NoResult
           ELSE countdown' = NoCountdown /\ result' = TaskResult(FALSE, TRUE)
    /\ pc' = "done"

\* run_scheduling_algorithm_async from "Process results" on; solve() is not
\* guarded, so an exception it raised reaches the except clause
TaskFinish ==
    /\ pc = "solved" /\ caller = "task"
    /\ IF ~solve_successful THEN TaskExcept /\ UNCHANGED assignments
       ELSE IF /\ TaskAccepts(solution_data, solver_status)
               /\ Conflicts(save_assignments_async(solution_data,
                                                   algorithm_soldiers,
                                                   start_date, end_date),
                            assignments)
           \* bulk_create raises, the atomic block is rolled back
           THEN TaskExcept /\ UNCHANGED assignments
       ELSE IF TaskAccepts(solution_data, solver_status)
           THEN /\ assignments' = assignments \cup
                       save_assignments_async(solution_data, algorithm_soldiers,
                                              start_date, end_date)
                /\ run_status' = "SUCCESS"
                /\ result' = TaskResult(TRUE, FALSE)
                /\ countdown' = NoCountdown
                /\ pc' = "done"
       ELSE /\ run_status' = "NO_SOLUTION"
            /\ result' = TaskResult(FALSE, FALSE)
            /\ countdown' = NoCountdown
            /\ pc' = "done"
            /\ UNCHANGED assignments
    /\ UNCHANGED <<retries, writers, tables, caller, start_date, end_date, scheduling_run,
                   soldiers_db, algorithm_soldiers, analysis, adaptive_params,
                   solver_config, solve_successful, solver_status,
                   solution_data, shortage, output, exit_code>>

\* the worker runs the retry the attempt scheduled: a new attempt of the
\* same task on the same run
TaskRetry ==
    /\ pc = "done" /\ caller = "task"
    /\ countdown # NoCountdown
    /\ retries' = retries + 1
    /\ countdown' = NoCountdown
    /\ algorithm_soldiers' = <<>>
    /\ analysis' = NoAnalysis
    /\ adaptive_params' = NoParams
    /\ solve_successful' = FALSE
    /\ solver_status' = NoStatus
    /\ solution_data' = NoData
    /\ shortage' = <<>>
    /\ pc' = "start"
    /\ UNCHANGED <<result, writers, tables, caller, start_date, end_date, scheduling_run,
                   soldiers_db, solver_config, assignments, run_status, output,
                   exit_code>>

\* _handle_scheduling_run from "if solution_data and solve_successful" on
ViewFinish ==
    /\ caller = "view"
    /\ IF ViewAccepts(solution_data, solve_successful)
           THEN Finish(ViewSaveAssignments(solution_data, algorithm_soldiers,
                                           start_date, end_date),
                       IF solver_status = FEASIBLE THEN "FEASIBLE" ELSE "SUCCESS",
                       NoExit)
       ELSE IF ~solve_successful THEN Finish({}, "SOLVER_ERROR", NoExit)
       ELSE Finish({}, "NO_SOLUTION", NoExit)

\* load_schedule_from_json from "if solution_data and status_code in [1, 2]"
\* on: the CommandError of the else branch is caught by the handler's own
\* except clause, which stores FAILURE and raises again; an exception that
\* leaves handle() ends the process with exit code 1
CliFinish ==
    /\ caller = "cli"
    /\ IF ~solve_successful THEN Finish({}, "FAILURE", 1)
       ELSE IF CliAccepts(solution_data, solver_status)
           THEN IF CliLookupRaises(solution_data, soldiers_db)
                    THEN Finish({}, "FAILURE", 1)
                    ELSE Finish(CliSaveAssignments(solution_data, soldiers_db,
                                                   start_date, end_date),
                                "SUCCESS", 0)
       ELSE Finish({}, "FAILURE", 1)

(* ------------------------------ exports ------------------------------- *)
\* the keys of solution_data in iteration order: one per name, in the order
\* the soldiers were given to the solver
RECURSIVE SolutionNames(_)
SolutionNames(soldiers) ==
    IF soldiers = <<>> THEN <<>>
    ELSE LET n == Len(soldiers)
             front == SolutionNames(SubSeq(soldiers, 1, n - 1))
         IN  IF \E j \in 1..(n - 1) : soldiers[j].name = soldiers[n].name
                 THEN front ELSE Append(front, soldiers[n].name)

\* run_schedule_stateless, format "calendar": per date the entries
\* {"name": ...} of the names on Base and of the others
StatelessCalendar(data, names, sd, ed) ==
    [kind |-> "calendar",
     dates |-> [d \in sd..ed |->
        LET on == SelectSeq(names, LAMBDA n : data.soldiers[n].schedule[d] = "Base")
            off == SelectSeq(names, LAMBDA n : data.soldiers[n].schedule[d] # "Base")
        IN  [on_base |-> [k \in DOMAIN on |-> [name |-> on[k]]],
             at_home |-> [k \in DOMAIN off |-> [name |-> off[k]]]]]]

\* run_schedule_stateless from "solution_data, status_code = scheduler.solve()"
\* on; an exception or a CommandError ends the process with exit code 1
StatelessFinish ==
    /\ pc = "solved" /\ caller = "stateless"
    /\ IF solve_successful /\ solution_data # NoData
           THEN /\ output' = StatelessCalendar(solution_data,
                                               SolutionNames(algorithm_soldiers),
                                               start_date, end_date)
                /\ exit_code' = 0
           ELSE /\ output' = output
                /\ exit_code' = 1
    /\ pc' = "done"
    /\ UNCHANGED <<retries, countdown, result, writers, tables, caller, start_date, end_date, scheduling_run, soldiers_db,
                   algorithm_soldiers, analysis, adaptive_params, solver_config,
                   solve_successful, solver_status, solution_data, shortage,
                   assignments, run_status>>

\* string order of the soldier names in use
NameOrder == <<"s", "s1", "s2">>
NameRank(name) == CHOOSE k \in DOMAIN NameOrder : NameOrder[k] = name

\* the orders in which order_by("assignment_date", "soldier__name") may
\* return the soldiers of one date: ascending by name, equal names in any order
OrderedByNameMut(db) ==
    {q \in [DOMAIN db -> DOMAIN db] :
        /\ \A i, j \in DOMAIN q : i # j => q[i] # q[j]
        /\ \A i, j \in DOMAIN q :
               i < j => NameRank(db[q[i]].name) >= NameRank(db[q[j]].name)}
OrderedByName(db) ==
    {q \in [DOMAIN db -> DOMAIN db] :
        /\ \A i, j \in DOMAIN q : i # j => q[i] # q[j]
        /\ \A i, j \in DOMAIN q :
               i < j => NameRank(db[q[i]].name) <= NameRank(db[q[j]].name)}

\* the rows of a set as a sequence, soldier by soldier in the order ord
RECURSIVE RowSeq(_, _)
RowSeq(rows, ord) ==
    IF ord = <<>> THEN <<>>
    ELSE LET n == Len(ord)
             front == RowSeq(rows, SubSeq(ord, 1, n - 1))
             mine == {a \in rows : a.soldier = ord[n]}
         IN  IF mine = {} THEN front
             ELSE IF \E a \in mine : a.is_on_base /\ Cardinality(mine) > 1
                 THEN front \o <<CHOOSE a \in mine : a.is_on_base,
                                 CHOOSE a \in mine : ~a.is_on_base>>
                 ELSE Append(front, CHOOSE a \in mine : TRUE)

AssignmentDates(rows) == {a.assignment_date : a \in rows}
RowsOn(rows, d) == {a \in rows : a.assignment_date = d}

\* export_assignments_json, format "calendar", for a queryset order qs
\* (qs[d] the rows of date d in queryset order)
ExportCalendarMut(qs, db) ==
    [kind |-> "calendar",
     dates |-> [d \in DOMAIN qs |->
        LET on == SelectSeq(qs[d], LAMBDA a : a.is_on_base)
            off == qs[d]
        IN  [on_base |-> [k \in DOMAIN on |->
                             [id |-> on[k].soldier, name |-> db[on[k].soldier].name]],
             at_home |-> [k \in DOMAIN off |->
                             [id |-> off[k].soldier, name |-> db[off[k].soldier].name]]]]]
ExportCalendar(qs, db) ==
    [kind |-> "calendar",
     dates |-> [d \in DOMAIN qs |->
        LET on == SelectSeq(qs[d], LAMBDA a : a.is_on_base)
            off == SelectSeq(qs[d], LAMBDA a : ~a.is_on_base)
        IN  [on_base |-> [k \in DOMAIN on |->
                             [id |-> on[k].soldier, name |-> db[on[k].soldier].name]],
             at_home |-> [k \in DOMAIN off |->
                             [id |-> off[k].soldier, name |-> db[off[k].soldier].name]]]]]

\* get_detailed_schedule: the same grouping, the lists hold names only
DetailedSchedule(qs, db) ==
    [kind |-> "detailed",
     dates |-> [d \in DOMAIN qs |->
        LET on == SelectSeq(qs[d], LAMBDA a : a.is_on_base)
            off == SelectSeq(qs[d], LAMBDA a : ~a.is_on_base)
        IN  [soldiers_on_base |-> [k \in DOMAIN on |-> db[on[k].soldier].name],
             soldiers_at_home |-> [k \in DOMAIN off |-> db[off[k].soldier].name]]]]

\* the queryset of the run's assignments, grouped by date
Queryset(rows, ord) ==
    [d \in AssignmentDates(rows) |-> RowSeq(RowsOn(rows, d), ord)]

Exported(doc) ==
    /\ pc = "done" /\ caller \in {"task", "view", "cli"}
    /\ output' = doc
    /\ pc' = "exported"
    /\ UNCHANGED <<retries, countdown, result, writers, tables, caller, start_date, end_date, scheduling_run, soldiers_db,
                   algorithm_soldiers, analysis, adaptive_params, solver_config,
                   solve_successful, solver_status, solution_data, shortage,
                   assignments, run_status, exit_code>>

\* export_assignments_json on the finished run
ExportAssignmentsJson ==
    \E ord \in OrderedByName(soldiers_db) :
        Exported(ExportCalendar(Queryset(assignments, ord), soldiers_db))

\* SchedulingRunViewSet.get_detailed_schedule on the finished run
GetDetailedSchedule ==
    \E ord \in OrderedByName(soldiers_db) :
        Exported(DetailedSchedule(Queryset(assignments, ord), soldiers_db))

(* --------------------------- initial states --------------------------- *)
SoldierRow(name, constraints) ==
    [name |-> name, constraints |-> constraints,
     is_exceptional_output |-> FALSE, is_weekend_only_soldier_flag |-> FALSE]

RunRow(mb, mh, blk, m) ==
    [default_base_days_target |-> 2, default_home_days_target |-> 2,
     max_consecutive_base_days |-> mb, max_consecutive_home_days |-> mh,
     min_base_block_days |-> blk, min_required_soldiers_per_day |-> m,
     max_total_home_days |-> None, max_weekend_base_days_per_soldier |-> None]

NoOverride == [base |-> None, home |-> None]
Config(single, edge, flexible, overrides) ==
    [allow_single_day_blocks |-> single, allow_edge_short_blocks |-> edge,
     flexible_daily_requirement |-> flexible, weekend_only_max_base |-> 2,
     overrides |-> overrides]

\* no handlers are followed side by side
NoWriters == writers = <<>> /\ tables = NoDb

Unsolved ==
    /\ pc = "start"
    /\ algorithm_soldiers = <<>>
    /\ analysis = NoAnalysis
    /\ adaptive_params = NoParams
    /\ solve_successful = FALSE
    /\ solver_status = NoStatus
    /\ solution_data = NoData
    /\ shortage = <<>>
    /\ assignments = {}
    /\ run_status = "PENDING"
    /\ output = NoOutput
    /\ exit_code = NoExit
    /\ retries = 0
    /\ countdown = NoCountdown
    /\ result = NoResult
    /\ NoWriters

\* two soldiers; constraint dates inside and outside the window
SolveRosters ==
    {<<SoldierRow("s1", c[1]), SoldierRow("s2", c[2])>> :
        c \in {<<{}, {}>>, <<{2}, {}>>, <<{0, 3}, {1}>>}}

\* runs that vary the consecutive caps and the per-person overrides
CapScenarios ==
    {[run |-> RunRow(mb, 2, 1, m),
      config |-> Config(FALSE, FALSE, FALSE, <<[base |-> b1, home |-> None],
                                               [base |-> None, home |-> h2]>>)] :
        mb \in {1, 2}, m \in {0, 1},
        b1 \in {None, Some(1), Some(3)}, h2 \in {None, Some(1)}}

\* runs that vary the minimum block rule
BlockScenarios ==
    {[run |-> RunRow(3, 3, blk, m),
      config |-> Config(single, edge, FALSE, <<NoOverride, NoOverride>>)] :
        blk \in {1, 2, 3}, m \in {0, 1}, single \in BOOLEAN, edge \in BOOLEAN}

\* runs that vary the daily requirement, up to one more than the roster
CoverageScenarios ==
    {[run |-> RunRow(2, 1, 1, m),
      config |-> Config(FALSE, FALSE, fl, <<NoOverride, NoOverride>>)] :
        m \in 1..3, fl \in BOOLEAN}

InitSolve ==
    /\ Unsolved
    /\ caller \in {"task", "view", "cli", "stateless"}
    /\ start_date = 1
    /\ end_date = SolveDays
    /\ soldiers_db \in SolveRosters
    /\ \E sc \in CapScenarios \cup BlockScenarios \cup CoverageScenarios :
           /\ scheduling_run = sc.run
           /\ solver_config = sc.config

Next ==
    \/ TaskPrepare \/ ViewPrepare \/ CliPrepare \/ StatelessPrepare
    \/ SolveOptimal \/ SolveInfeasible \/ SolveBudgetExhausted \/ SolveRaises
    \/ TaskFinish \/ ViewFinish \/ CliFinish \/ StatelessFinish

Spec == InitSolve /\ [][Next]_vars

\* the pipeline followed by the exports of the stored assignments, on rosters
\* given in name order and against it
ExportRosters ==
    {<<SoldierRow(n[1], {2}), SoldierRow(n[2], {})>> :
        n \in {<<"s1", "s2">>, <<"s2", "s1">>}}

InitExport ==
    /\ Unsolved
    /\ caller \in {"task", "view", "cli", "stateless"}
    /\ start_date = 1
    /\ end_date = SolveDays
    /\ soldiers_db \in ExportRosters
    /\ \E sc \in CoverageScenarios :
           /\ scheduling_run = sc.run
           /\ solver_config = sc.config

NextExport == Next \/ ExportAssignmentsJson \/ GetDetailedSchedule

SpecExport == InitExport /\ [][NextExport]_vars

\* the adaptive callers on instances that vary the daily requirement and
\* the block rule, solved to optimality
EscalateScenarios ==
    {[run |-> RunRow(2, 2, blk, m),
      config |-> Config(single, FALSE, FALSE, <<NoOverride, NoOverride>>)] :
        blk \in {1, 2}, m \in 1..3, single \in BOOLEAN}

InitEscalate ==
    /\ Unsolved
    /\ caller \in {"task", "view"}
    /\ start_date = 1
    /\ end_date = SolveDays
    /\ soldiers_db \in SolveRosters
    /\ \E sc \in EscalateScenarios :
           /\ scheduling_run = sc.run
           /\ solver_config = sc.config

NextEscalate == TaskPrepare \/ ViewPrepare \/ SolveOptimal

SpecEscalate == InitEscalate /\ [][NextEscalate]_vars

(* --------------------- end-to-end pipeline script --------------------- *)
\* f"Employee {idx:02d}" for the indices of the model (below 10)
DefaultEmployeeName(idx) == "Employee 0" \o ToString(idx)

\* name_counts: how many employees carry the name (a missing name counts
\* as "")
name_counts(employees, name) ==
    Cardinality({i \in DOMAIN employees : employees[i].name = name})

\* str(e.get("id") or idx): a missing or zero id gives way to the position
emp_id(employees, idx) ==
    ToString(IF employees[idx].id = 0 THEN idx ELSE employees[idx].id)

\* the name the solver gets: the employee's own (or the default), suffixed
\* with the id when that name occurs more than once in the input
SolverName(employees, idx) ==
    LET name == IF employees[idx].name = "" THEN DefaultEmployeeName(idx)
                                           ELSE employees[idx].name
    IN  IF name_counts(employees, name) > 1
            THEN name \o " [" \o emp_id(employees, idx) \o "]"
            ELSE name

\* out_name_to_id[name] = emp_id, written in input order: the last employee
\* of a name wins
out_name_to_id(employees) ==
    [name \in {SolverName(employees, i) : i \in DOMAIN employees} |->
        LET last == CHOOSE i \in DOMAIN employees :
                        /\ SolverName(employees, i) = name
                        /\ \A j \in DOMAIN employees :
                               SolverName(employees, j) = name => j <= i
        IN  emp_id(employees, last)]

build_algo_soldiers(employees) ==
    [i \in DOMAIN employees |->
        AlgorithmSoldier(emp_id(employees, i), SolverName(employees, i),
                         employees[i].constraints,
                         employees[i].is_exceptional_output,
                         employees[i].is_weekend_only_soldier_flag)]

\* main: the employees of the input become the solver's soldiers
BuildAlgoSoldiers ==
    /\ pc = "start" /\ caller = "pipeline"
    /\ algorithm_soldiers' = build_algo_soldiers(soldiers_db)
    /\ output' = [kind |-> "name_to_id",
                  out_name_to_id |-> out_name_to_id(soldiers_db)]
    /\ pc' = "created"
    /\ UNCHANGED <<retries, countdown, result, writers, tables, caller, start_date, end_date, scheduling_run, soldiers_db,
                   analysis, adaptive_params, solver_config, solve_successful,
                   solver_status, solution_data, shortage, assignments,
                   run_status, exit_code>>

\* employees lists of one to three entries: names missing, plain, or shaped
\* like a suffixed or a default name; ids 0 (falsy) to 3
Employees ==
    {[SoldierRow(n, {}) EXCEPT !.name = n] @@ [id |-> i] :
        n \in {"", "A", "A [1]", "Employee 01"}, i \in 0..3}
EmployeeLists ==
    UNION {[1..n -> Employees] : n \in 1..3}

InitPipeline ==
    /\ Unsolved
    /\ caller = "pipeline"
    /\ start_date = 1
    /\ end_date = SolveDays
    /\ soldiers_db \in EmployeeLists
    /\ scheduling_run = RunRow(2, 2, 1, 1)
    /\ solver_config = Config(FALSE, FALSE, FALSE, <<>>)

NextPipeline == BuildAlgoSoldiers

SpecPipeline == InitPipeline /\ [][NextPipeline]_vars

(* -------------------- the window of the pipeline script --------------- *)
\* _get_setting: the value of the first key that is present and neither
\* None nor "" (both held as None), else the default
RECURSIVE get_setting(_, _, _)
get_setting(settings, keys, default) ==
    IF keys = <<>> THEN default
    ELSE IF settings[Head(keys)] # None THEN settings[Head(keys)]
    ELSE get_setting(settings, Tail(keys), default)

\* override_start or _get_setting(settings, [...])
OverrideOr(override, settings, keys) ==
    IF override # None THEN override ELSE get_setting(settings, keys, None)

\* dates = [s.get("date") for s in shifts if s.get("date")]
ShiftDates(shifts) ==
    {TheOne(shifts[k].date) : k \in {j \in DOMAIN shifts : shifts[j].date # None}}
MinDate(dates) == CHOOSE d \in dates : \A e \in dates : d <= e
MaxDate(dates) == CHOOSE d \in dates : \A e \in dates : e <= d

\* build_schedule_config(settings, shifts, override_start, override_end):
\* the window, or raised when nothing gives it
NoScheduleConfig == [raised |-> TRUE, start_date |-> 0, end_date |-> 0]
ScheduleConfig(sd, ed) == [raised |-> FALSE, start_date |-> sd, end_date |-> ed]
build_schedule_config(settings, shifts, override_start, override_end) ==
    LET start == OverrideOr(override_start, settings, <<"startDate", "start_date">>)
        end == OverrideOr(override_end, settings, <<"endDate", "end_date">>)
    IN  IF start = None \/ end = None
            THEN IF Len(shifts) > 0
                     THEN IF ShiftDates(shifts) = {} THEN NoScheduleConfig
                          ELSE ScheduleConfig(MinDate(ShiftDates(shifts)),
                                      MaxDate(ShiftDates(shifts)))
                     ELSE NoScheduleConfig
            ELSE ScheduleConfig(TheOne(start), TheOne(end))

\* main up to "cfg = build_schedule_config(...)": the window is stored, or
\* SystemExit ends the script with exit code 1
BuildScheduleConfig ==
    /\ pc = "start" /\ caller = "window"
    /\ \E cfg \in {build_schedule_config(solver_config.settings, solver_config.shifts,
                                          solver_config.override_start,
                                          solver_config.override_end)} :
        IF cfg.raised
            THEN /\ exit_code' = 1 /\ pc' = "done"
                 /\ UNCHANGED <<start_date, end_date>>
            ELSE /\ start_date' = cfg.start_date /\ end_date' = cfg.end_date
                 /\ pc' = "created"
                 /\ UNCHANGED exit_code
    /\ UNCHANGED <<retries, countdown, result, writers, tables, caller,
                   scheduling_run, soldiers_db, algorithm_soldiers, analysis,
                   adaptive_params, solver_config, solve_successful,
                   solver_status, solution_data, shortage, assignments,
                   run_status, output>>

\* settings with each date under either spelling, or absent
WindowSettings ==
    [startDate : {None, Some(2)}, start_date : {None, Some(3)},
     endDate : {None, Some(4)}, end_date : {None, Some(3)}]
\* up to two input shifts, dated or not
WindowShifts ==
    UNION {[1..n -> [date : {None, Some(1), Some(5)}]] : n \in 0..2}

\* the script before its window is known (start_date and end_date unset)
InitWindow ==
    /\ pc = "start"
    /\ caller = "window"
    /\ start_date = 0
    /\ end_date = 0
    /\ scheduling_run = RunRow(2, 2, 1, 1)
    /\ soldiers_db = <<SoldierRow("s1", {})>>
    /\ solver_config \in [settings : WindowSettings, shifts : WindowShifts,
                           override_start : {None, Some(2), Some(3)},
                           override_end : {None, Some(3), Some(4)}]
    /\ algorithm_soldiers = <<>>
    /\ analysis = NoAnalysis
    /\ adaptive_params = NoParams
    /\ solve_successful = FALSE
    /\ solver_status = NoStatus
    /\ solution_data = NoData
    /\ shortage = <<>>
    /\ assignments = {}
    /\ run_status = "PENDING"
    /\ output = NoOutput
    /\ exit_code = NoExit
    /\ retries = 0
    /\ countdown = NoCountdown
    /\ result = NoResult
    /\ NoWriters

NextWindow == BuildScheduleConfig

SpecWindow == InitWindow /\ [][NextWindow]_vars

(* ----------------------- simple schedule generator -------------------- *)
soldiers_per_day == 4
WeekendSoldierName == "Yinon (he)"   \* the Hebrew name the generator singles out
\* date.weekday(): Monday is 0 and Saturday 5; day number 0 is a Monday
weekday(d) == d % 7

\* emp['unavailable_dates']: the unavailable days inside the window
unavailable_dates(emp, sd, ed) == {d \in emp.constraints : sd <= d /\ d <= ed}

\* available_today: in the order of employees, those not unavailable, the
\* weekend soldier on Saturdays only
available_today(employees, d, sd, ed) ==
    LET free == SelectSeq(employees, LAMBDA emp :
                    /\ d \notin unavailable_dates(emp, sd, ed)
                    /\ (emp.name = WeekendSoldierName => weekday(d) = 5))
    IN  [k \in DOMAIN free |-> free[k].name]

\* the loop "Assign soldiers using simple rotation" from rotation_start on
\* (positions count from 0)
RECURSIVE Rotate(_, _, _)
Rotate(available, rotation_start, daily_assignments) ==
    IF ~(Len(daily_assignments) < soldiers_per_day /\ Len(available) > 0)
        THEN daily_assignments
    ELSE LET at == IF rotation_start >= Len(available) THEN 0 ELSE rotation_start
             soldier == available[at + 1]
             daily == IF \E k \in DOMAIN daily_assignments :
                             daily_assignments[k] = soldier
                          THEN daily_assignments
                          ELSE Append(daily_assignments, soldier)
         IN  IF at + 1 >= Len(available) /\ Len(daily) < soldiers_per_day
                 THEN daily
                 ELSE Rotate(available, at + 1, daily)

\* current_rotation after k days
RECURSIVE current_rotation(_, _)
current_rotation(employees, k) ==
    IF k = 0 THEN 0
    ELSE IF Len(employees) > 0
        THEN (current_rotation(employees, k - 1) + soldiers_per_day) % Len(employees)
        ELSE 0

\* generate_simple_schedule: per name and day, Base for the names in that
\* day's daily_assignments and Home for the others
generate_simple_schedule(employees, sd, ed) ==
    LET daily == [d \in sd..ed |->
                     Rotate(available_today(employees, d, sd, ed),
                            current_rotation(employees, d - sd), <<>>)]
    IN  [name \in {employees[k].name : k \in DOMAIN employees} |->
            [d \in sd..ed |->
                IF \E k \in DOMAIN daily[d] : daily[d][k] = name
                    THEN "Base" ELSE "Home"]]

GenerateSimpleSchedule ==
    /\ pc = "start" /\ caller = "simple"
    /\ output' = [kind |-> "simple",
                  schedule |-> generate_simple_schedule(soldiers_db, start_date,
                                                        end_date)]
    /\ pc' = "done"
    /\ UNCHANGED <<retries, countdown, result, writers, tables, caller,
                   start_date, end_date, scheduling_run, soldiers_db,
                   algorithm_soldiers, analysis, adaptive_params, solver_config,
                   solve_successful, solver_status, solution_data, shortage,
                   assignments, run_status, exit_code>>

\* up to five employees, the weekend soldier third, each unavailable on no
\* day, on one of the first two days, or on a day before the window
SimpleNames == <<"s1", "s2", WeekendSoldierName, "s3", "s4">>
SimpleEmployees(sd) ==
    UNION {{[k \in 1..n |-> SoldierRow(SimpleNames[k], u[k])] :
               u \in [1..n -> {{}, {sd}, {sd + 1}, {sd - 1}}]} : n \in 0..5}

\* windows of one to three days that begin on a Friday or a Saturday
InitSimple ==
    /\ Unsolved
    /\ caller = "simple"
    /\ start_date \in {4, 5}
    /\ end_date \in start_date..(start_date + 2)
    /\ soldiers_db \in SimpleEmployees(start_date)
    /\ scheduling_run = RunRow(2, 2, 1, 1)
    /\ solver_config = Config(FALSE, FALSE, FALSE, <<>>)

NextSimple == GenerateSimpleSchedule

SpecSimple == InitSimple /\ [][NextSimple]_vars

(* ----------------------- the cap encoding alone ---------------------- *)
\* H3 and H4 evaluated on one person's row under the run's two caps
CheckCaps ==
    /\ pc = "start" /\ caller = "builder"
    /\ output' = [kind |-> "caps",
                  h3 |-> ConsecutiveCap(solution_data[1],
                                        scheduling_run.max_consecutive_base_days,
                                        1, start_date, end_date),
                  h4 |-> ConsecutiveCap(solution_data[1],
                                        scheduling_run.max_consecutive_home_days,
                                        0, start_date, end_date)]
    /\ pc' = "checked"
    /\ UNCHANGED <<retries, countdown, result, writers, tables, caller, start_date, end_date, scheduling_run, soldiers_db,
                   algorithm_soldiers, analysis, adaptive_params, solver_config,
                   solve_successful, solver_status, solution_data, shortage,
                   assignments, run_status, exit_code>>

\* every 0/1 row over 1 to MaxDays days, every pair of caps in 1..MaxDays
InitCaps ==
    /\ pc = "start"
    /\ caller = "builder"
    /\ start_date = 1
    /\ end_date \in 1..MaxDays
    /\ solution_data \in {<<row>> : row \in [start_date..end_date -> {0, 1}]}
    /\ \E mb \in 1..MaxDays, mh \in 1..MaxDays :
           scheduling_run = RunRow(mb, mh, 1, 1)
    /\ soldiers_db = <<SoldierRow("s1", {})>>
    /\ solver_config = Config(FALSE, FALSE, FALSE, <<NoOverride>>)
    /\ algorithm_soldiers = <<>>
    /\ analysis = NoAnalysis
    /\ adaptive_params = NoParams
    /\ solve_successful = FALSE
    /\ solver_status = NoStatus
    /\ shortage = <<>>
    /\ assignments = {}
    /\ run_status = "PENDING"
    /\ output = NoOutput
    /\ exit_code = NoExit
    /\ retries = 0
    /\ countdown = NoCountdown
    /\ result = NoResult
    /\ NoWriters

NextCaps == CheckCaps

SpecCaps == InitCaps /\ [][NextCaps]_vars

(* ------------------- a run from request to stored status ------------- *)
\* SchedulingRun.STATUS_CHOICES, the values declared for status
STATUS_CHOICES ==
    {"SUCCESS", "FAILURE", "IN_PROGRESS", "NO_SOLUTION", "CANCELLED", "PENDING"}

\* the constructor of the scheduler raises inside the task: nothing guards
\* it, the except clause runs
TaskCreationRaises ==
    /\ pc = "created" /\ caller = "task"
    /\ TaskExcept
    /\ UNCHANGED <<retries, writers, tables, caller, start_date, end_date, scheduling_run,
                   soldiers_db, algorithm_soldiers, analysis, adaptive_params,
                   solver_config, solve_successful, solver_status,
                   solution_data, shortage, assignments, output, exit_code>>

\* the constructor raises inside the view: CREATION_ERROR is stored and a
\* 500 response returned
ViewCreationRaises ==
    /\ pc = "created" /\ caller = "view"
    /\ run_status' = "CREATION_ERROR"
    /\ pc' = "done"
    /\ UNCHANGED <<retries, countdown, result, writers, tables, caller, start_date, end_date,
                   scheduling_run, soldiers_db, algorithm_soldiers, analysis,
                   adaptive_params, solver_config, solve_successful,
                   solver_status, solution_data, shortage, assignments, output,
                   exit_code>>

\* runs that vary the daily requirement, and one no schedule satisfies
\* (blocks of three days under a cap of one)
RunScenarios ==
    CoverageScenarios
    \cup {[run |-> RunRow(1, 1, 3, 1),
           config |-> Config(FALSE, FALSE, FALSE, <<NoOverride, NoOverride>>)]}

\* the task or the view on an existing run over a window of three days
InitRun ==
    /\ Unsolved
    /\ caller \in {"task", "view"}
    /\ start_date = 1
    /\ end_date = 3
    /\ soldiers_db \in SolveRosters
    /\ \E sc \in RunScenarios :
           /\ scheduling_run = sc.run
           /\ solver_config = sc.config

NextRun ==
    \/ TaskPrepare \/ ViewPrepare
    \/ TaskCreationRaises \/ ViewCreationRaises
    \/ SolveOptimal \/ SolveInfeasible \/ SolveBudgetExhausted \/ SolveRaises
    \/ TaskFinish \/ ViewFinish
    \/ TaskRetry

SpecRun == InitRun /\ [][NextRun]_vars

\* every step of a handler is taken in the end: the worker runs what it
\* accepted, the solver stops at its time limit, a scheduled retry is run
SpecRunFair == SpecRun /\ WF_vars(NextRun)

(* ------------------- rosters with names that collide ------------------ *)
\* Soldier.Meta: unique_together (organization, name); the task and the view
\* load the soldiers of every organization, so two rows may hold one name,
\* and the cleaning maps different stored names to one
RosterNames == {"s1", "s2", "'s1'", " s2 ", "s\"2", ""}
NameRosters ==
    {<<SoldierRow(n1, c[1]), SoldierRow(n2, c[2])>> :
        n1 \in {"s1", "'s1'", ""}, n2 \in RosterNames,
        c \in {<<{}, {}>>, <<{2}, {}>>, <<{1, 3}, {2}>>}}

InitNames ==
    /\ Unsolved
    /\ caller \in {"task", "view"}
    /\ start_date = 1
    /\ end_date = 3
    /\ soldiers_db \in NameRosters
    /\ \E sc \in RunScenarios :
           /\ scheduling_run = sc.run
           /\ solver_config = sc.config

NextNames ==
    \/ TaskPrepare \/ ViewPrepare
    \/ SolveOptimal \/ SolveInfeasible \/ SolveBudgetExhausted \/ SolveRaises
    \/ TaskFinish \/ ViewFinish

SpecNames == InitNames /\ [][NextNames]_vars

(* ------------------- the soldiers a run is meant for ------------------ *)
\* units 1 and 3 have no parent, unit 2 is a sub-unit of unit 1
Units == {1, 2, 3}
parent_unit == [u \in Units |-> IF u = 2 THEN {1} ELSE None]
sub_units(unit) == {u \in Units : parent_unit[u] = {unit}}

\* Unit.get_all_soldiers: the soldiers of the unit and of all its sub-units
RECURSIVE get_all_soldiers(_, _)
get_all_soldiers(unit, db) ==
    {i \in DOMAIN db : db[i].unit = unit}
    \cup UNION {get_all_soldiers(u, db) : u \in sub_units(unit)}

\* SchedulingRun.get_target_soldiers: the ACTIVE soldiers of the target
\* units, without the excluded ones
get_target_soldiers(run, db) ==
    {i \in UNION {get_all_soldiers(u, db) : u \in run.target_units} :
        db[i].status = "ACTIVE"} \ run.exclude_soldiers

\* a Soldier row with its unit and status
UnitSoldierRow(name, unit, status) ==
    [name |-> name, constraints |-> {},
     is_exceptional_output |-> FALSE, is_weekend_only_soldier_flag |-> FALSE,
     unit |-> unit, status |-> status]
TargetRosters ==
    {<<UnitSoldierRow("s1", u[1], st[1]), UnitSoldierRow("s2", u[2], st[2])>> :
        u \in Units \X Units, st \in {"ACTIVE", "ON_LEAVE"} \X {"ACTIVE", "ON_LEAVE"}}

\* a run for unit 1 with the soldiers of ex excluded, under a base cap of
\* mb days and blocks of at least blk days
TargetRun(ex, mb, blk) ==
    [default_base_days_target |-> 2, default_home_days_target |-> 2,
     max_consecutive_base_days |-> mb, max_consecutive_home_days |-> 1,
     min_base_block_days |-> blk, min_required_soldiers_per_day |-> 1,
     max_total_home_days |-> None, max_weekend_base_days_per_soldier |-> None,
     target_units |-> {1}, exclude_soldiers |-> ex]

InitTargets ==
    /\ Unsolved
    /\ caller \in {"task", "view"}
    /\ start_date = 1
    /\ end_date = 3
    /\ soldiers_db \in TargetRosters
    /\ scheduling_run \in {TargetRun(ex, c[1], c[2]) :
                               ex \in SUBSET {1, 2}, c \in {<<2, 1>>, <<1, 3>>}}
    /\ solver_config = Config(FALSE, FALSE, FALSE, <<NoOverride, NoOverride>>)

NextTargets ==
    \/ TaskPrepare \/ ViewPrepare
    \/ SolveOptimal \/ SolveInfeasible \/ SolveBudgetExhausted \/ SolveRaises
    \/ TaskFinish \/ ViewFinish

SpecTargets == InitTargets /\ [][NextTargets]_vars

(* ------------------- the task executed again on a run ----------------- *)
\* run_scheduling_algorithm_async is called once more for the same run
\* after an execution has ended with nothing left to retry
TaskRerun ==
    /\ pc = "done" /\ caller = "task"
    /\ countdown = NoCountdown
    /\ retries' = 0
    /\ result' = NoResult
    /\ algorithm_soldiers' = <<>>
    /\ analysis' = NoAnalysis
    /\ adaptive_params' = NoParams
    /\ solve_successful' = FALSE
    /\ solver_status' = NoStatus
    /\ solution_data' = NoData
    /\ shortage' = <<>>
    /\ pc' = "start"
    /\ UNCHANGED <<countdown, writers, tables, caller, start_date, end_date, scheduling_run,
                   soldiers_db, solver_config, assignments, run_status, output,
                   exit_code>>

InitRerun ==
    /\ Unsolved
    /\ caller = "task"
    /\ start_date = 1
    /\ end_date = 3
    /\ soldiers_db \in SolveRosters
    /\ \E sc \in RunScenarios :
           /\ scheduling_run = sc.run
           /\ solver_config = sc.config

NextRerun ==
    \/ TaskPrepare \/ TaskCreationRaises
    \/ SolveOptimal \/ SolveInfeasible \/ SolveBudgetExhausted \/ SolveRaises
    \/ TaskFinish \/ TaskRetry \/ TaskRerun

SpecRerun == InitRerun /\ [][NextRerun]_vars

(* -------------------- handlers running side by side ------------------ *)
\* Requests and task executions interleave on the shared tables. Each
\* handler is followed from its first write to its last; what its solver
\* returns is any schedule over the window it read, or nothing.
Procs == {1, 2, 3}
WriterKinds == <<"new", "update", "task", "cli">>
Windows == {<<1, 1>>, <<1, 2>>, <<2, 2>>}

RunRecord(status, window) ==
    [status |-> status, start_date |-> window[1], end_date |-> window[2]]
Row(run, soldier, assignment_date, is_on_base, by) ==
    [scheduling_run |-> run, soldier |-> soldier,
     assignment_date |-> assignment_date, is_on_base |-> is_on_base, by |-> by]

\* a table without the constraint: every insert is accepted
UniqueTogetherMut(rows, stored) == FALSE
\* unique_together = ('scheduling_run', 'soldier', 'assignment_date'): the
\* insert of the rows next to the stored ones is rejected
UniqueTogether(rows, stored) ==
    \E a \in rows, b \in stored :
        /\ a.scheduling_run = b.scheduling_run
        /\ a.soldier = b.soldier
        /\ a.assignment_date = b.assignment_date

\* the soldier a handler schedules: the one Soldier row of the API, or the
\* row the command created for its own run
WriterSoldier(kind, run) == IF kind = "cli" THEN 1 + run ELSE 1

Started(p, run, window) ==
    writers' = [writers EXCEPT ![p] = [@ EXCEPT !.pc = "solving", !.run = run,
                                                !.window = window]]
Ended(p) ==
    writers' = [writers EXCEPT ![p] = [@ EXCEPT !.pc = "done", !.rows = {}]]

OtherVarsUnchanged ==
    UNCHANGED <<pc, caller, start_date, end_date, scheduling_run, soldiers_db,
                algorithm_soldiers, analysis, adaptive_params, solver_config,
                solve_successful, solver_status, solution_data, shortage,
                assignments, run_status, output, exit_code, retries, countdown,
                result>>

\* run_scheduling_new: a new SchedulingRun is created IN_PROGRESS
BeginNew(p) ==
    /\ writers[p].kind = "new" /\ writers[p].pc = "idle"
    /\ \E w \in Windows :
        /\ tables' = [tables EXCEPT
               !.runs = Append(@, RunRecord("IN_PROGRESS", w))]
        /\ Started(p, Len(tables.runs) + 1, w)
    /\ OtherVarsUnchanged

\* load_schedule_from_json: a new run for the event of the file, its (no)
\* assignments deleted, then IN_PROGRESS
BeginCli(p) ==
    /\ writers[p].kind = "cli" /\ writers[p].pc = "idle"
    /\ \E w \in Windows :
        /\ tables' = [tables EXCEPT
               !.runs = Append(@, RunRecord("IN_PROGRESS", w))]
        /\ Started(p, Len(tables.runs) + 1, w)
    /\ OtherVarsUnchanged

\* update_existing_scheduling_run on a stored run: the window of the request
\* is saved with IN_PROGRESS and the run's assignments inside it are deleted
BeginUpdate(p) ==
    /\ writers[p].kind = "update" /\ writers[p].pc = "idle"
    /\ \E run \in DOMAIN tables.runs, w \in Windows :
        /\ tables' = [runs |-> [tables.runs EXCEPT
                                   ![run] = RunRecord("IN_PROGRESS", w)],
                      rows |-> {r \in tables.rows :
                                   ~(/\ r.scheduling_run = run
                                     /\ w[1] <= r.assignment_date
                                     /\ r.assignment_date <= w[2])}]
        /\ Started(p, run, w)
    /\ OtherVarsUnchanged

\* update_existing_scheduling_run with an id no run has: 404
UpdateNotFound(p) ==
    /\ writers[p].kind = "update" /\ writers[p].pc = "idle"
    /\ Ended(p)
    /\ UNCHANGED tables
    /\ OtherVarsUnchanged

\* run_scheduling_algorithm_async on a stored run: IN_PROGRESS is saved and
\* the window read
BeginTask(p) ==
    /\ writers[p].kind = "task" /\ writers[p].pc = "idle"
    /\ \E run \in DOMAIN tables.runs :
        /\ tables' = [tables EXCEPT !.runs[run].status = "IN_PROGRESS"]
        /\ Started(p, run, <<tables.runs[run].start_date,
                             tables.runs[run].end_date>>)
    /\ OtherVarsUnchanged

\* the run object a handler holds is saved with the given status: the API
\* handlers save every field, the window they read included; the command
\* saves the status alone
SavedRun(p, status) ==
    IF writers[p].kind = "cli"
        THEN [tables.runs EXCEPT ![writers[p].run].status = status]
        ELSE [tables.runs EXCEPT
                 ![writers[p].run] = RunRecord(status, writers[p].window)]

\* the solver returns a schedule: the handler has its rows to insert
Solved(p) ==
    /\ writers[p].pc = "solving"
    /\ \E on_base \in [writers[p].window[1]..writers[p].window[2] -> BOOLEAN] :
        writers' = [writers EXCEPT ![p] = [@ EXCEPT
            !.pc = "saving",
            !.rows = {Row(writers[p].run,
                          WriterSoldier(writers[p].kind, writers[p].run),
                          d, on_base[d], p) : d \in DOMAIN on_base}]]
    /\ UNCHANGED tables
    /\ OtherVarsUnchanged

\* the solver returns nothing: NO_SOLUTION is saved
Unsolvable(p) ==
    /\ writers[p].pc = "solving"
    /\ tables' = [tables EXCEPT !.runs = SavedRun(p, "NO_SOLUTION")]
    /\ Ended(p)
    /\ OtherVarsUnchanged

\* the handler's transaction: its rows are inserted and SUCCESS saved, or
\* the insert is rejected, nothing is inserted and FAILURE saved
Commit(p) ==
    /\ writers[p].pc = "saving"
    /\ IF UniqueTogether(writers[p].rows, tables.rows)
           THEN tables' = [tables EXCEPT !.runs = SavedRun(p, "FAILURE")]
           ELSE tables' = [runs |-> SavedRun(p, "SUCCESS"),
                           rows |-> tables.rows \cup writers[p].rows]
    /\ Ended(p)
    /\ OtherVarsUnchanged

\* one stored run over days 1..2, with or without the assignments of an
\* earlier success (written by no process of the model: by 0)
InitWriters ==
    /\ pc = "start"
    /\ caller = "concurrent"
    /\ start_date = 1
    /\ end_date = 2
    /\ scheduling_run = RunRow(2, 2, 1, 1)
    /\ soldiers_db = <<SoldierRow("s1", {})>>
    /\ solver_config = Config(FALSE, FALSE, FALSE, <<NoOverride>>)
    /\ algorithm_soldiers = <<>>
    /\ analysis = NoAnalysis
    /\ adaptive_params = NoParams
    /\ solve_successful = FALSE
    /\ solver_status = NoStatus
    /\ solution_data = NoData
    /\ shortage = <<>>
    /\ assignments = {}
    /\ run_status = "PENDING"
    /\ output = NoOutput
    /\ exit_code = NoExit
    /\ retries = 0
    /\ countdown = NoCountdown
    /\ result = NoResult
    \* every choice of three handlers, whichever process runs which
    /\ \E k \in [Procs -> DOMAIN WriterKinds] :
        /\ \A p, q \in Procs : p <= q => k[p] <= k[q]
        /\ writers = [p \in Procs |->
                          [kind |-> WriterKinds[k[p]], pc |-> "idle", run |-> 0,
                           window |-> <<1, 1>>, rows |-> {}]]
    /\ \/ tables = [runs |-> <<RunRecord("PENDING", <<1, 2>>)>>, rows |-> {}]
       \/ tables = [runs |-> <<RunRecord("SUCCESS", <<1, 2>>)>>,
                    rows |-> {Row(1, 1, d, TRUE, 0) : d \in 1..2}]

NextWriters ==
    \E p \in Procs :
        \/ BeginNew(p) \/ BeginCli(p) \/ BeginUpdate(p) \/ UpdateNotFound(p)
        \/ BeginTask(p)
        \/ Solved(p) \/ Unsolvable(p) \/ Commit(p)

SpecWriters == InitWriters /\ [][NextWriters]_vars

(* ------------------- entry with unvalidated input --------------------- *)
\* what each entry point does with a window or a roster nobody validated,
\* up to the creation of the scheduler

\* the task's analysis divides by zero: the handler stores FAILURE
TaskAnalysisRaises ==
    /\ pc = "start" /\ caller = "task"
    /\ AnalysisRaises(PrepareSoldiers(soldiers_db, start_date, end_date),
                      start_date, end_date)
    /\ TaskExcept
    /\ UNCHANGED <<retries, writers, tables, caller, start_date, end_date, scheduling_run,
                   soldiers_db, algorithm_soldiers, analysis, adaptive_params,
                   solver_config, solve_successful, solver_status,
                   solution_data, shortage, assignments, output, exit_code>>

\* the view's analysis divides by zero: FAILURE and a 500 response
ViewAnalysisRaises ==
    /\ pc = "start" /\ caller = "view"
    /\ AnalysisRaises(PrepareSoldiers(soldiers_db, start_date, end_date),
                      start_date, end_date)
    /\ run_status' = "FAILURE"
    /\ pc' = "done"
    /\ UNCHANGED <<retries, countdown, result, writers, tables, caller, start_date, end_date, scheduling_run, soldiers_db,
                   algorithm_soldiers, analysis, adaptive_params, solver_config,
                   solve_successful, solver_status, solution_data, shortage,
                   assignments, output, exit_code>>

\* load_schedule_from_json without soldiers: FAILURE and a CommandError
CliRejects ==
    /\ pc = "start" /\ caller = "cli"
    /\ Len(soldiers_db) = 0
    /\ run_status' = "FAILURE"
    /\ assignments' = {}
    /\ exit_code' = 1
    /\ pc' = "done"
    /\ UNCHANGED <<retries, countdown, result, writers, tables, caller, start_date, end_date, scheduling_run, soldiers_db,
                   algorithm_soldiers, analysis, adaptive_params, solver_config,
                   solve_successful, solver_status, solution_data, shortage,
                   output>>

\* run_schedule_stateless without soldiers: a CommandError
StatelessRejects ==
    /\ pc = "start" /\ caller = "stateless"
    /\ Len(soldiers_db) = 0
    /\ exit_code' = 1
    /\ pc' = "done"
    /\ UNCHANGED <<retries, countdown, result, writers, tables, caller, start_date, end_date, scheduling_run, soldiers_db,
                   algorithm_soldiers, analysis, adaptive_params, solver_config,
                   solve_successful, solver_status, solution_data, shortage,
                   assignments, run_status, output>>

\* rosters of zero to two people
EntryRosters ==
    {<<>>}
    \cup {<<SoldierRow("s1", c)>> : c \in SUBSET {1, 2, 3}}
    \cup {<<SoldierRow("s1", c[1]), SoldierRow("s2", c[2])>> :
             c \in {<<{}, {}>>, <<{2}, {}>>, <<{1, 3}, {2}>>}}

\* windows from day 2 to a day in 0..3: minus one, no, one or two days long
InitEntry ==
    /\ Unsolved
    /\ caller \in {"task", "view", "cli", "stateless"}
    /\ start_date = 2
    /\ end_date \in 0..3
    /\ soldiers_db \in EntryRosters
    /\ \E sc \in CoverageScenarios :
           /\ scheduling_run = sc.run
           /\ solver_config = sc.config

NextEntry ==
    \/ TaskPrepare \/ ViewPrepare \/ CliPrepare \/ StatelessPrepare
    \/ TaskAnalysisRaises \/ ViewAnalysisRaises
    \/ CliRejects \/ StatelessRejects

SpecEntry == InitEntry /\ [][NextEntry]_vars

(* ------------------------ person preprocessor ------------------------- *)
\* AlgorithmSoldier.analyze_parameters, step 2 of the preprocessor: the
\* density of the constraints inside the window exceeds
\* exceptional_threshold / window_length, or their count exceeds the
\* threshold
ExceptionalByConstraints(soldier, config, sd, ed) ==
    LET window_length == (ed - sd) + 1
        count == Cardinality({d \in soldier.raw_constraints : sd <= d /\ d <= ed})
    IN  \/ count * window_length >
               config.exceptional_constraint_threshold * window_length
        \/ count > config.exceptional_constraint_threshold

analyze_parametersMut(soldier, config, sd, ed) ==
    [soldier EXCEPT !.is_exceptional_output =
        config.auto_adjust_for_constraints
            /\ ExceptionalByConstraints(soldier, config, sd, ed)]
\* the flag is set when auto-adjustment marks the person, never cleared; the
\* overrides the later steps compute from the flag are not part of the record
analyze_parameters(soldier, config, sd, ed) ==
    [soldier EXCEPT !.is_exceptional_output =
        @ \/ (config.auto_adjust_for_constraints
                /\ ExceptionalByConstraints(soldier, config, sd, ed))]

\* the event's parameters as the test hands them to analyze_parameters
PreprocessConfigs ==
    {[exceptional_constraint_threshold |-> t, auto_adjust_for_constraints |-> a] :
        t \in 0..3, a \in BOOLEAN}

\* the soldiers are created with all their constraint dates and the flags
\* of their rows, and analysed under the event's parameters
FirstAnalysis ==
    /\ pc = "start"
    /\ algorithm_soldiers' =
           [i \in DOMAIN soldiers_db |->
               analyze_parameters(
                   AlgorithmSoldier(i, soldiers_db[i].name,
                                    soldiers_db[i].constraints,
                                    soldiers_db[i].is_exceptional_output,
                                    soldiers_db[i].is_weekend_only_soldier_flag),
                   solver_config, start_date, end_date)]
    /\ pc' = "analysed"
    /\ UNCHANGED <<retries, countdown, result, writers, tables, caller, start_date, end_date, scheduling_run, soldiers_db,
                   analysis, adaptive_params, solver_config, solve_successful,
                   solver_status, solution_data, shortage, assignments,
                   run_status, output, exit_code>>

\* the event's parameters are changed and the same soldiers analysed again
Reanalysis ==
    /\ pc = "analysed"
    /\ \E new_config \in PreprocessConfigs \ {solver_config} :
        /\ solver_config' = new_config
        /\ algorithm_soldiers' =
               [i \in DOMAIN algorithm_soldiers |->
                   analyze_parameters(algorithm_soldiers[i], new_config,
                                      start_date, end_date)]
    /\ UNCHANGED <<retries, countdown, result, pc, writers, tables, caller, start_date, end_date, scheduling_run,
                   soldiers_db, analysis, adaptive_params, solve_successful,
                   solver_status, solution_data, shortage, assignments,
                   run_status, output, exit_code>>

\* two people, marked exceptional by the caller or not, with constraint
\* dates inside and beyond a window of three days
PreprocessRosters ==
    {<<[SoldierRow("s1", c1) EXCEPT !.is_exceptional_output = e1],
       [SoldierRow("s2", c2) EXCEPT !.is_exceptional_output = e2]>> :
        c1 \in SUBSET {1, 2, 4}, c2 \in {{}, {1, 2, 3}},
        e1 \in BOOLEAN, e2 \in BOOLEAN}

InitPreprocess ==
    /\ Unsolved
    /\ caller = "test"
    /\ start_date = 1
    /\ end_date = 3
    /\ soldiers_db \in PreprocessRosters
    /\ scheduling_run = RunRow(2, 2, 1, 1)
    /\ solver_config \in PreprocessConfigs

NextPreprocess == FirstAnalysis \/ Reanalysis

SpecPreprocess == InitPreprocess /\ [][NextPreprocess]_vars

\* the analysis alone, on rosters of MaxSoldiers soldiers whose constraint
\* dates are 1..k, inside the window and beyond its end
AnalysisRosters ==
    {db \in [1..MaxSoldiers -> {SoldierRow("s", 1..k) : k \in 0..(MaxDays + 1)}] : TRUE}

InitAnalysis ==
    /\ Unsolved
    /\ caller \in {"task", "view"}
    /\ start_date = 1
    /\ end_date \in 1..MaxDays
    /\ soldiers_db \in AnalysisRosters
    /\ \E m \in 0..MaxRequired : scheduling_run = RunRow(2, 2, 1, m)
    /\ solver_config = Config(FALSE, FALSE, FALSE, <<>>)

NextAnalysis == TaskPrepare \/ ViewPrepare

SpecAnalysis == InitAnalysis /\ [][NextAnalysis]_vars

(* ============================== claims ================================ *)
Window == start_date..end_date
WindowLength == end_date - start_date + 1

\* solve() has returned a schedule
Returned == pc \in {"solved", "done"} /\ solution_data # NoData

\* the returned schedule of the i-th soldier, day -> "Base" | "Home"
ScheduleOf(i) == solution_data.soldiers[algorithm_soldiers[i].name].schedule

\* maximal runs of one status word in a schedule, as <<first, last>>
RunsOf(schedule, word) ==
    {r \in Window \X Window :
        /\ r[1] <= r[2]
        /\ \A j \in r[1]..r[2] : schedule[j] = word
        /\ (r[1] = start_date \/ schedule[r[1] - 1] # word)
        /\ (r[2] = end_date \/ schedule[r[2] + 1] # word)}
RunLength(r) == r[2] - r[1] + 1

\* the unavailable days of the i-th person that fall in the window
UnavailableInWindow(i) == soldiers_db[i].constraints \cap Window

\* the arguments the scheduler was created with
StrictCoverage == ~SchedulerArgs.flexible_daily_requirement
MinRequired == scheduling_run.min_required_soldiers_per_day

\* C1: in every returned schedule each person is at Home on every day of
\* the window that is among that person's unavailable days.
C1_UnavailabilityHonored ==
    Returned =>
        \A i \in DOMAIN soldiers_db : \A d \in UnavailableInWindow(i) :
            ScheduleOf(i)[d] = "Home"

\* a schedule was returned for a person with an unavailable day on the
\* first day of the window, while the other person is on Base that day
C1_Witness ==
    /\ Returned
    /\ \E i, j \in DOMAIN soldiers_db :
           /\ start_date \in UnavailableInWindow(i)
           /\ ScheduleOf(i)[start_date] = "Home"
           /\ ScheduleOf(j)[start_date] = "Base"

ClaimedCap(override, policy_value) ==
    IF override = None THEN policy_value ELSE TheOne(override)

\* C3: in a returned schedule no maximal Base run of a person is longer than
\* the person's effective max_consecutive_base, and no maximal Home run is
\* longer than the effective max_consecutive_home.
C3_ConsecutiveCaps ==
    Returned =>
        \A i \in DOMAIN algorithm_soldiers :
            /\ \A r \in RunsOf(ScheduleOf(i), "Base") :
                   RunLength(r) <= ClaimedCap(solver_config.overrides[i].base,
                                              scheduling_run.max_consecutive_base_days)
            /\ \A r \in RunsOf(ScheduleOf(i), "Home") :
                   RunLength(r) <= ClaimedCap(solver_config.overrides[i].home,
                                              scheduling_run.max_consecutive_home_days)

\* a person with an override above the policy cap has a Base run as long as
\* the override, another person a Home run as long as the policy cap
C3_Witness ==
    /\ Returned
    /\ \E i, j \in DOMAIN algorithm_soldiers :
           /\ solver_config.overrides[i].base # None
           /\ TheOne(solver_config.overrides[i].base) >
                  scheduling_run.max_consecutive_base_days
           /\ \E r \in RunsOf(ScheduleOf(i), "Base") :
                  RunLength(r) = TheOne(solver_config.overrides[i].base)
           /\ solver_config.overrides[j].home = None
           /\ \E r \in RunsOf(ScheduleOf(j), "Home") :
                  RunLength(r) = scheduling_run.max_consecutive_home_days

TouchesEdge(r) == r[1] = start_date \/ r[2] = end_date

\* C4: when allow_single_day_blocks is false every maximal Base run of a
\* returned schedule has at least min_base_block days; a run that touches a
\* window edge is exempt only if allow_edge_short_blocks is set.
C4_MinimumBlock ==
    (Returned /\ ~solver_config.allow_single_day_blocks) =>
        \A i \in DOMAIN algorithm_soldiers :
            \A r \in RunsOf(ScheduleOf(i), "Base") :
                \/ RunLength(r) >= scheduling_run.min_base_block_days
                \/ solver_config.allow_edge_short_blocks /\ TouchesEdge(r)

\* min_base_block = 3, no exemption: one person's Base run is the first
\* three days of the window, another's the last three
C4_Witness ==
    /\ Returned
    /\ ~solver_config.allow_single_day_blocks
    /\ ~solver_config.allow_edge_short_blocks
    /\ scheduling_run.min_base_block_days = 3
    /\ \E i, j \in DOMAIN algorithm_soldiers :
           /\ <<start_date, start_date + 2>> \in RunsOf(ScheduleOf(i), "Base")
           /\ <<end_date - 2, end_date>> \in RunsOf(ScheduleOf(j), "Base")

\* C5: when a handler is done, Assignment rows were written if and only if
\* solve() returned status Optimal or Feasible.
C5_AssignmentsIffSolved ==
    pc = "done" =>
        ((assignments # {}) <=>
            (solve_successful /\ solver_status \in {OPTIMAL, FEASIBLE}))

\* the schedule itself is present exactly for Optimal and Feasible
C5_ScheduleIffStatus ==
    pc \in {"solved", "done"} =>
        ((solution_data # NoData) <=>
            (solve_successful /\ solver_status \in {OPTIMAL, FEASIBLE}))

\* the backend ran its search to the end: it neither raised nor stopped on
\* the time budget
BackendCompleted == solve_successful /\ solver_status \notin {UNKNOWN, FEASIBLE}

Analysed == pc = "created" /\ caller \in {"task", "view"}

\* persons whose unavailability density |unavailable in window| / window
\* length is above 0.4 = 2/5
ClaimedHeavy ==
    Cardinality({i \in DOMAIN soldiers_db :
                    5 * Cardinality(UnavailableInWindow(i)) > 2 * WindowLength})

\* the rule of C6, first match wins
ClaimedDifficulty(heavy, ratio) ==
    CASE heavy >= 3 \/ FracLess(ratio, 11, 10) -> "APOCALYPTIC"
      [] heavy >= 2 \/ FracLess(ratio, 13, 10) -> "EXTREME"
      [] heavy >= 1 \/ FracLess(ratio, 3, 2) -> "HARD"
      [] OTHER -> "MEDIUM"

\* C6: the difficulty class is decided by the count of heavily constrained
\* persons (density strictly above 0.4) and the availability ratio:
\* APOCALYPTIC if heavy >= 3 or ratio < 1.1, else EXTREME if heavy >= 2 or
\* ratio < 1.3, else HARD if heavy >= 1 or ratio < 1.5, else MEDIUM.
C6_DifficultyRule ==
    Analysed =>
        /\ analysis.heavily_constrained = ClaimedHeavy
        /\ analysis.difficulty =
               ClaimedDifficulty(ClaimedHeavy, analysis.availability_ratio)

\* a person with density exactly 0.4 is not heavy: the class stays MEDIUM
C6_Witness ==
    /\ Analysed
    /\ \E i \in DOMAIN soldiers_db :
           5 * Cardinality(UnavailableInWindow(i)) = 2 * WindowLength
    /\ analysis.heavily_constrained = 0
    /\ analysis.difficulty = "MEDIUM"

\* person-days available in the window
ClaimedTotalAvailable ==
    SumSeq([i \in DOMAIN soldiers_db |->
               WindowLength - Cardinality(UnavailableInWindow(i))])
ClaimedRequiredTotal == MinRequired * WindowLength

\* C7 as stated: availability_ratio = total_available / max(1,
\* required_total); with min_required_per_day = 0 it equals total_available.
C7_RatioMaxOne ==
    Analysed =>
        /\ analysis.total_available = ClaimedTotalAvailable
        /\ analysis.required_total = ClaimedRequiredTotal
        /\ FracEq(analysis.availability_ratio,
                  Frac(ClaimedTotalAvailable, Max(1, ClaimedRequiredTotal)))

\* C7 as amended: availability_ratio = total_available / required_total when
\* required_total > 0, and 1.0 when required_total = 0.
C7_RatioOrOne ==
    Analysed =>
        /\ analysis.total_available = ClaimedTotalAvailable
        /\ analysis.required_total = ClaimedRequiredTotal
        /\ IF ClaimedRequiredTotal > 0
           THEN FracEq(analysis.availability_ratio,
                       Frac(ClaimedTotalAvailable, ClaimedRequiredTotal))
           ELSE FracEq(analysis.availability_ratio, Frac(1, 1))

\* nothing is required, several person-days are available, the ratio is 1.0
C7_Witness ==
    /\ Analysed
    /\ MinRequired = 0
    /\ ClaimedTotalAvailable > 1
    /\ FracEq(analysis.availability_ratio, Frac(1, 1))
    /\ \E i \in DOMAIN soldiers_db :
           soldiers_db[i].constraints \ Window # {}

DifficultyClasses == <<"MEDIUM", "HARD", "EXTREME", "APOCALYPTIC">>

\* what either adapter returns for a class and the run's own parameters
AdaptedFor(class) ==
    IF caller = "task"
    THEN get_adaptive_parameters_async([difficulty |-> class],
                                       original_params(scheduling_run))
    ELSE get_adaptive_parameters([difficulty |-> class],
                                 original_params(scheduling_run))

PenaltyOrder(p) ==
    /\ p.penalty_one_day_block > p.penalty_no_work
    /\ p.penalty_no_work > p.critical_penalty_long_block
    /\ p.critical_penalty_long_block > p.penalty_shortage
    /\ p.penalty_shortage > p.penalty_long_block

\* C8: for every difficulty class the adapted penalties are ordered
\* one-day-block > zero-work > critical > shortage > long-block.
C8_PenaltyOrder ==
    Analysed =>
        /\ PenaltyOrder(adaptive_params)
        /\ \A k \in DOMAIN DifficultyClasses :
               PenaltyOrder(AdaptedFor(DifficultyClasses[k]))

C8_Witness ==
    /\ Analysed
    /\ analysis.difficulty = "HARD"
    /\ adaptive_params.penalty_shortage = 2000000
    /\ adaptive_params.critical_penalty_long_block = 5000000

PenaltyNames ==
    {"penalty_one_day_block", "penalty_shortage", "penalty_no_work",
     "penalty_long_block", "critical_penalty_long_block"}

\* C9: each penalty grows strictly from MEDIUM to HARD to EXTREME to
\* APOCALYPTIC, and the adapter returns every policy value the caller
\* supplied unchanged.
C9_PenaltiesIncreaseParamsKept ==
    Analysed =>
        /\ \A k \in 1..(Len(DifficultyClasses) - 1) : \A n \in PenaltyNames :
               AdaptedFor(DifficultyClasses[k])[n] <
                   AdaptedFor(DifficultyClasses[k + 1])[n]
        /\ adaptive_params = AdaptedFor(analysis.difficulty)
        /\ \A n \in DOMAIN original_params(scheduling_run) :
               /\ n \in DOMAIN adaptive_params
               /\ adaptive_params[n] = original_params(scheduling_run)[n]

C9_Witness ==
    /\ Analysed
    /\ analysis.difficulty = "APOCALYPTIC"
    /\ adaptive_params.penalty_one_day_block = 50000000
    /\ adaptive_params.min_required_soldiers_per_day = MaxRequired

(* ------------------------------ exports ------------------------------- *)
DistinctNames ==
    \A i, j \in DOMAIN soldiers_db :
        i # j => soldiers_db[i].name # soldiers_db[j].name

\* the calendar written by run_schedule_stateless / by export_assignments_json
StatelessCalendarWritten ==
    caller = "stateless" /\ pc = "done" /\ output.kind = "calendar"
ExportCalendarWritten ==
    caller # "stateless" /\ pc = "exported" /\ output.kind = "calendar"
DetailedScheduleWritten ==
    caller # "stateless" /\ pc = "exported" /\ output.kind = "detailed"

\* positions of a list at which the entry is e
Positions(list, e) == {k \in DOMAIN list : list[k] = e}

\* C11: the calendar export is a partition: on every date of the window
\* every scheduled person is listed exactly once, in on_base or in at_home,
\* and in on_base exactly when the person's assigned status of the date is
\* Base (the solver's schedule for the stateless export and for rows stored
\* by the task and the command, the Assignment row for the database exports).
C11_CalendarPartition ==
    /\ (StatelessCalendarWritten /\ DistinctNames) =>
           /\ DOMAIN output.dates = Window
           /\ \A d \in Window : \A i \in DOMAIN algorithm_soldiers :
                  LET e == [name |-> algorithm_soldiers[i].name]
                      on == Positions(output.dates[d].on_base, e)
                      off == Positions(output.dates[d].at_home, e)
                  IN  /\ Cardinality(on) + Cardinality(off) = 1
                      /\ on # {} <=> ScheduleOf(i)[d] = "Base"
    /\ ExportCalendarWritten =>
           /\ DOMAIN output.dates = AssignmentDates(assignments)
           /\ assignments # {} => DOMAIN output.dates = Window
           /\ \A a \in assignments :
                  LET e == [id |-> a.soldier, name |-> soldiers_db[a.soldier].name]
                      on == Positions(output.dates[a.assignment_date].on_base, e)
                      off == Positions(output.dates[a.assignment_date].at_home, e)
                  IN  /\ Cardinality(on) + Cardinality(off) = 1
                      /\ on # {} <=> a.is_on_base
                      /\ caller \in {"task", "cli"} =>
                             (on # {} <=>
                                 ScheduleOf(a.soldier)[a.assignment_date] = "Base")
           /\ \A d \in DOMAIN output.dates :
                  Len(output.dates[d].on_base) + Len(output.dates[d].at_home)
                      = Cardinality(RowsOn(assignments, d))
    /\ (DetailedScheduleWritten /\ DistinctNames) =>
           \A a \in assignments :
               LET e == soldiers_db[a.soldier].name
                   day == output.dates[a.assignment_date]
                   on == Positions(day.soldiers_on_base, e)
                   off == Positions(day.soldiers_at_home, e)
               IN  /\ Cardinality(on) + Cardinality(off) = 1
                   /\ on # {} <=> a.is_on_base

\* an exported calendar of a run stored by the task with a date on which one
\* person is on base and the other at home
C11_Witness ==
    /\ ExportCalendarWritten /\ caller = "task"
    /\ \E d \in DOMAIN output.dates :
           /\ Len(output.dates[d].on_base) = 1
           /\ Len(output.dates[d].at_home) = 1

\* position of an entry's person in the input people list
InputPosition(e) ==
    IF caller = "stateless"
        THEN CHOOSE i \in DOMAIN algorithm_soldiers :
                 /\ algorithm_soldiers[i].name = e.name
                 /\ \A j \in 1..(i - 1) : algorithm_soldiers[j].name # e.name
        ELSE e.id

AscendingBy(list, Key(_)) ==
    \A i, j \in DOMAIN list : i < j => Key(list[i]) <= Key(list[j])
EntryNameRank(e) == NameRank(e.name)

\* C12 as stated: within each date's on_base list and at_home list of a
\* calendar export the persons are in the order of the input people list.
C12_InputOrder ==
    (StatelessCalendarWritten \/ ExportCalendarWritten) =>
        \A d \in DOMAIN output.dates :
            /\ AscendingBy(output.dates[d].on_base, InputPosition)
            /\ AscendingBy(output.dates[d].at_home, InputPosition)

\* C12 as amended: the stateless export lists the persons of each list in
\* input order; export_assignments_json lists them in ascending name order.
C12_InputOrNameOrder ==
    /\ StatelessCalendarWritten =>
           \A d \in DOMAIN output.dates :
               /\ AscendingBy(output.dates[d].on_base, InputPosition)
               /\ AscendingBy(output.dates[d].at_home, InputPosition)
    /\ ExportCalendarWritten =>
           \A d \in DOMAIN output.dates :
               /\ AscendingBy(output.dates[d].on_base, EntryNameRank)
               /\ AscendingBy(output.dates[d].at_home, EntryNameRank)

\* the people were given as s2, s1 and the export lists s1 before s2
C12_Witness ==
    /\ ExportCalendarWritten
    /\ soldiers_db[1].name = "s2" /\ soldiers_db[2].name = "s1"
    /\ \E d \in DOMAIN output.dates :
           output.dates[d].on_base = <<[id |-> 2, name |-> "s1"],
                                       [id |-> 1, name |-> "s2"]>>

(* ----------------------------- exit codes ----------------------------- *)
\* the exit code the drivers' contract gives a solve outcome
ClaimedExitCode ==
    IF ~solve_successful THEN 1
    ELSE IF solver_status \in {OPTIMAL, FEASIBLE} THEN 0
    ELSE 2

\* C13: a command line driver exits with code 0 when the solve status is
\* Optimal or Feasible, with 2 when it is Infeasible or Unknown, and with 1
\* when the solve failed with an error.
C13_ExitCodes ==
    (pc = "done" /\ caller \in {"cli", "stateless"}) =>
        exit_code = ClaimedExitCode

(* ------------------------------ C14 ----------------------------------- *)
InvalidInput == end_date < start_date \/ Len(soldiers_db) = 0

\* C14: a window with end < start, and likewise an empty people list, is
\* rejected before any analysis, model construction or solve: once the
\* entry point has acted on such input no analysis has been made and no
\* scheduler has been created
C14_RejectedBeforeAnalysis ==
    (InvalidInput /\ pc # "start") =>
        /\ analysis = NoAnalysis
        /\ pc = "done"

(* ------------------------------ C15 ----------------------------------- *)
CallerMarked(i) == soldiers_db[i].is_exceptional_output
EffectiveExceptional(i) == algorithm_soldiers[i].is_exceptional_output

\* C15: the exceptional flag is monotonic: a person the caller marked
\* exceptional is effective-exceptional after preprocessing under every
\* policy, and analysing again with other parameters never turns an
\* effective-exceptional flag off
C15_ExceptionalMonotonic ==
    /\ [](pc = "analysed" =>
             \A i \in DOMAIN soldiers_db :
                 CallerMarked(i) => EffectiveExceptional(i))
    /\ [][\A i \in DOMAIN algorithm_soldiers :
              EffectiveExceptional(i) =>
                  algorithm_soldiers'[i].is_exceptional_output]_vars

\* analysed again with auto-adjustment off: a caller-marked person and a
\* person marked by the earlier analysis alone are both still exceptional
C15_Witness ==
    /\ pc = "analysed"
    /\ ~solver_config.auto_adjust_for_constraints
    /\ CallerMarked(1) /\ EffectiveExceptional(1)
    /\ ~CallerMarked(2) /\ EffectiveExceptional(2)

(* ------------------------------ C16 ----------------------------------- *)
\* the scheduler's arguments had the analysis named the given class
PolicyFor(class) ==
    SchedulerArgsAdaptive(scheduling_run, AdaptedFor(class), solver_config)

\* the objective of a grid under a class's penalty schedule
ObjectiveUnder(class, g) ==
    Objective(g, TightSlack(g, PolicyFor(class), start_date, end_date),
              SolverSoldiers, PolicyFor(class), start_date, end_date)

MinOf(S) == CHOOSE v \in S : \A w \in S : v <= w

\* an instance the adaptive callers solved to optimality
SolvedFeasible ==
    /\ pc = "solved" /\ caller \in {"task", "view"}
    /\ solver_status = OPTIMAL /\ solution_data # NoData

\* C16: for the same feasible instance the objective of every fixed grid,
\* and with it the optimal objective value, is non-decreasing along
\* MEDIUM, HARD, EXTREME, APOCALYPTIC
C16_DifficultyMonotonic ==
    SolvedFeasible =>
        \E grids \in {[k \in DOMAIN DifficultyClasses |->
                          HardGrids(SolverSoldiers,
                                    PolicyFor(DifficultyClasses[k]),
                                    start_date, end_date)]} :
        \E cost \in {[k \in DOMAIN DifficultyClasses |->
                         [g \in grids[k] |->
                             ObjectiveUnder(DifficultyClasses[k], g)]]} :
            \A k \in 1..(Len(DifficultyClasses) - 1) :
                /\ grids[k] = grids[k + 1]
                /\ \A g \in grids[k] : cost[k][g] <= cost[k + 1][g]
                /\ MinOf({cost[k][g] : g \in grids[k]})
                       <= MinOf({cost[k + 1][g] : g \in grids[k + 1]})

\* an instance whose every solution costs something: a day is short of
\* people, so the optimum rises strictly from each class to the next
C16_Witness ==
    /\ SolvedFeasible
    /\ \E d \in Window : shortage[d] > 0
    /\ \E grids \in {HardGrids(SolverSoldiers, PolicyFor("MEDIUM"),
                               start_date, end_date)} :
        \A k \in 1..(Len(DifficultyClasses) - 1) :
            MinOf({ObjectiveUnder(DifficultyClasses[k], g) : g \in grids})
                < MinOf({ObjectiveUnder(DifficultyClasses[k + 1], g) : g \in grids})

(* ------------------------------ C17 ----------------------------------- *)
\* every employee has an id of its own (0 stands for an id left out)
DistinctIds ==
    /\ \A i \in DOMAIN soldiers_db : soldiers_db[i].id # 0
    /\ \A i, j \in DOMAIN soldiers_db :
           i # j => soldiers_db[i].id # soldiers_db[j].id

\* C17: for every employees list with pairwise distinct ids the soldiers
\* build_algo_soldiers returns have pairwise distinct names, and
\* out_name_to_id maps each soldier's name to the id of the employee the
\* soldier was built from
C17_UniqueSolverNames ==
    (pc = "created" /\ caller = "pipeline" /\ DistinctIds) =>
        /\ \A i, j \in DOMAIN algorithm_soldiers :
               i # j => algorithm_soldiers[i].name # algorithm_soldiers[j].name
        /\ \A i \in DOMAIN algorithm_soldiers :
               output.out_name_to_id[algorithm_soldiers[i].name]
                   = ToString(soldiers_db[i].id)

(* ------------------------------ C18 ----------------------------------- *)
\* some run of the value v in the row is longer than cap
RunLongerThan(row, v, cap) ==
    \E a, b \in DOMAIN row :
        /\ b - a + 1 > cap
        /\ \A j \in a..b : row[j] = v

\* C18: for every 0/1 row over N days and every cap M >= 1, H3 (every M + 1
\* consecutive days hold at most M Base days) holds if and only if no Base
\* run is longer than M, and H4 likewise on Home days, also when N < M + 1
C18_CapEncoding ==
    pc = "checked" =>
        /\ output.h3 <=>
               ~RunLongerThan(solution_data[1], 1,
                              scheduling_run.max_consecutive_base_days)
        /\ output.h4 <=>
               ~RunLongerThan(solution_data[1], 0,
                              scheduling_run.max_consecutive_home_days)

\* a Base run that ends on the last day breaks H3 while H4 holds with no
\* sliding window at all (the window is shorter than the Home cap + 1)
C18_Witness ==
    /\ pc = "checked"
    /\ ~output.h3 /\ output.h4
    /\ solution_data[1][end_date] = 1 /\ solution_data[1][start_date] = 0
    /\ WindowLength < scheduling_run.max_consecutive_home_days + 1

(* ------------------------------ C19 ----------------------------------- *)
TaskEndStatuses == {"SUCCESS", "NO_SOLUTION", "FAILURE"}
ViewEndStatuses ==
    {"SUCCESS", "FEASIBLE", "NO_SOLUTION", "SOLVER_ERROR", "CREATION_ERROR",
     "FAILURE"}

\* C19: a run the task or the view set to IN_PROGRESS leaves that
\* status, and when the attempt ends (or the view returns) the stored
\* status is SUCCESS, NO_SOLUTION or FAILURE
C19_EndsInThreeStatuses ==
    /\ [](pc = "done" => run_status \in TaskEndStatuses)
    /\ (run_status = "IN_PROGRESS") ~> (run_status # "IN_PROGRESS")

\* what the handlers do (C19): a run set to IN_PROGRESS leaves that status;
\* a task attempt ends in SUCCESS, NO_SOLUTION or FAILURE, the view in one of
\* those or in FEASIBLE, SOLVER_ERROR or CREATION_ERROR
C19_LeavesInProgress ==
    /\ [](pc = "done" =>
             IF caller = "task" THEN run_status \in TaskEndStatuses
                                ELSE run_status \in ViewEndStatuses)
    /\ (run_status = "IN_PROGRESS") ~> (run_status # "IN_PROGRESS")

\* a retried attempt of the task has set the run to IN_PROGRESS again and
\* ended with a stored FAILURE and another retry scheduled
C19_Witness ==
    /\ pc = "done" /\ caller = "task"
    /\ retries = 1 /\ countdown # NoCountdown
    /\ run_status = "FAILURE"

(* ------------------------------ C20 ----------------------------------- *)
TaskAttemptEnded == pc = "done" /\ caller = "task"
RetryScheduled == countdown # NoCountdown
ClaimedDelays == <<60, 120, 240>>       \* 60 * 2^k for k = 0, 1, 2

\* C20: the task is attempted at most four times (the first attempt and
\* max_retries = 3 retries); the retry scheduled by attempt k = 0, 1, 2 is
\* delayed by 60 * 2^k seconds; the fourth failing attempt returns
\* success = False with retries_exhausted = True and schedules nothing; an
\* attempt that ends in SUCCESS or NO_SOLUTION is never retried
C20_RetriesBounded ==
    /\ retries + 1 <= 4
    /\ (TaskAttemptEnded /\ RetryScheduled) =>
           /\ retries \in 0..2
           /\ countdown = ClaimedDelays[retries + 1]
           /\ run_status = "FAILURE"
    /\ (TaskAttemptEnded /\ run_status = "FAILURE" /\ retries = 3) =>
           /\ ~RetryScheduled
           /\ result.returned /\ ~result.success /\ result.retries_exhausted
    /\ (TaskAttemptEnded /\ run_status \in {"SUCCESS", "NO_SOLUTION"}) =>
           /\ ~RetryScheduled
           /\ result.returned /\ ~result.retries_exhausted

\* the fourth attempt has raised as the three before it: the failure is
\* returned, nothing is scheduled
C20_Witness ==
    /\ TaskAttemptEnded
    /\ retries = 3 /\ run_status = "FAILURE"
    /\ ~RetryScheduled /\ result.retries_exhausted

(* ------------------------------ C21 ----------------------------------- *)
\* exactly one Assignment for every scheduled soldier and day of the window
OnePerSoldierAndDay ==
    /\ \A i \in DOMAIN soldiers_db : \A d \in Window :
           Cardinality({a \in assignments :
                           a.soldier = i /\ a.assignment_date = d}) = 1
    /\ \A a \in assignments :
           a.soldier \in DOMAIN soldiers_db /\ a.assignment_date \in Window

\* C21: after any sequence of executions of the task on the same run the
\* stored status agrees with the stored assignments: SUCCESS if and only if
\* there is exactly one Assignment per scheduled soldier and day, and none
\* at all under FAILURE or NO_SOLUTION
C21_StatusAgreesWithAssignments ==
    TaskAttemptEnded =>
        /\ run_status = "SUCCESS" <=> OnePerSoldierAndDay
        /\ run_status \in {"FAILURE", "NO_SOLUTION"} => assignments = {}

(* ------------------------------ C22 ----------------------------------- *)
\* C22: under any interleaving of run_scheduling_new,
\* update_existing_scheduling_run, the task and the load command there is
\* at most one Assignment per (scheduling_run, soldier, assignment_date)
C22_OneAssignmentPerKey ==
    \A a, b \in tables.rows :
        (/\ a.scheduling_run = b.scheduling_run
         /\ a.soldier = b.soldier
         /\ a.assignment_date = b.assignment_date) => a = b

\* two handlers wrote for the same run and day side by side: the rows of
\* one are stored, the insert of the other was rejected
C22_Witness ==
    \E p, q \in Procs :
        /\ p # q
        /\ writers[p].pc = "done" /\ writers[q].pc = "done"
        /\ writers[p].run = writers[q].run
        /\ writers[q].run \in DOMAIN tables.runs
        /\ tables.runs[writers[q].run].status = "FAILURE"
        /\ \E r \in tables.rows : r.by = p /\ r.scheduling_run = writers[q].run
        /\ ~\E r \in tables.rows : r.by = q

(* ------------------------------ C23 ----------------------------------- *)
\* the handler stored the rows of an accepted schedule
StoredSchedule ==
    /\ pc = "done" /\ caller \in {"task", "view"}
    /\ solution_data # NoData /\ assignments # {}

\* the stored rows are those of the solver's assignment g, soldier by soldier
StoredFrom(g) ==
    \A i \in DOMAIN algorithm_soldiers, d \in start_date..end_date :
        Assignment(algorithm_soldiers[i].id, d, g[i][d] = 1) \in assignments

\* C23: whenever the view or the task has stored the rows of a schedule,
\* the stored is_on_base of every soldier s and day d is true exactly when
\* the solver assigned Base to s on d: the rows are those of an assignment
\* of the solver that projects to the returned solution
C23_StoredAsAssigned ==
    StoredSchedule =>
        \E g \in HardGrids(SolverSoldiers, SchedulerArgs, start_date, end_date) :
            /\ Project(g, SolverSoldiers, start_date, end_date) = solution_data
            /\ StoredFrom(g)

\* what the code does for the task on soldiers with different names after
\* the cleaning: the rows are the solver's
C23_TaskDistinctNames ==
    (/\ StoredSchedule /\ caller = "task"
     /\ algorithm_soldiers[1].name # algorithm_soldiers[2].name) =>
        \E g \in HardGrids(SolverSoldiers, SchedulerArgs, start_date, end_date) :
            /\ Project(g, SolverSoldiers, start_date, end_date) = solution_data
            /\ StoredFrom(g)

\* the task has stored one value for two soldiers whose names the cleaning
\* made equal, and no assignment of the solver gives these rows
C23_SameNameMerged ==
    /\ StoredSchedule /\ caller = "task"
    /\ algorithm_soldiers[1].name = algorithm_soldiers[2].name
    /\ soldiers_db[1].name # soldiers_db[2].name
    /\ \A g \in HardGrids(SolverSoldiers, SchedulerArgs, start_date, end_date) :
           ~StoredFrom(g)

(* ------------------------------ C24 ----------------------------------- *)
\* the returned solution reports Base for the name on day d
ReportsBase(name, d) ==
    /\ name \in DOMAIN solution_data.soldiers
    /\ solution_data.soldiers[name].schedule[d] = "Base"

\* the rows a handler stored follow the returned solution
RowsFollowSolution(names) ==
    \A a \in assignments :
        a.is_on_base <=> ReportsBase(names[a.soldier], a.assignment_date)

\* the calendar a command wrote follows the returned solution
CalendarFollowsSolution ==
    \A d \in DOMAIN output.dates :
        \A name \in DOMAIN solution_data.soldiers :
            (\E k \in DOMAIN output.dates[d].on_base :
                 output.dates[d].on_base[k].name = name)
            <=> ReportsBase(name, d)

\* a caller has stored or exported the schedule of the returned solution
DerivedByCaller(c) ==
    /\ pc = "done" /\ caller = c /\ solution_data # NoData
    /\ IF c = "stateless" THEN output.kind = "calendar" ELSE assignments # {}

\* C24: every caller derives the same value from the solver's output: for
\* the view, the task and the commands alike, a soldier is stored or
\* exported as on base on a day exactly when the solution reports Base
C24_CallersAgree ==
    /\ DerivedByCaller("view") =>
           RowsFollowSolution([i \in DOMAIN algorithm_soldiers |->
                                  algorithm_soldiers[i].name])
    /\ DerivedByCaller("task") =>
           RowsFollowSolution([i \in DOMAIN algorithm_soldiers |->
                                  algorithm_soldiers[i].name])
    /\ DerivedByCaller("cli") =>
           RowsFollowSolution([i \in DOMAIN soldiers_db |-> soldiers_db[i].name])
    /\ DerivedByCaller("stateless") => CalendarFollowsSolution

\* what the code does: the task and the two commands agree with the solution
C24_AllButTheView ==
    /\ DerivedByCaller("task") =>
           RowsFollowSolution([i \in DOMAIN algorithm_soldiers |->
                                  algorithm_soldiers[i].name])
    /\ DerivedByCaller("cli") =>
           RowsFollowSolution([i \in DOMAIN soldiers_db |-> soldiers_db[i].name])
    /\ DerivedByCaller("stateless") => CalendarFollowsSolution

\* each of the three has derived a schedule
C24_TaskDerived == DerivedByCaller("task")
C24_CliDerived == DerivedByCaller("cli")
C24_StatelessDerived == DerivedByCaller("stateless")

(* ------------------------------ C25 ----------------------------------- *)
\* update_existing_scheduling_run has completed for process p while no
\* other handler ran
UpdateCompletedAlone(p) ==
    /\ writers[p].kind = "update" /\ writers[p].pc = "done"
    /\ writers[p].run \in DOMAIN tables.runs
    /\ \A q \in Procs \ {p} : writers[q].pc = "idle"

InWindow(r, run) ==
    /\ tables.runs[run].start_date <= r.assignment_date
    /\ r.assignment_date <= tables.runs[run].end_date

\* C25: after update_existing_scheduling_run has completed, whatever the
\* change of the window, every Assignment of the run lies within the run's
\* current start_date..end_date
C25_AssignmentsWithinWindow ==
    \A p \in Procs :
        UpdateCompletedAlone(p) =>
            \A r \in tables.rows :
                r.scheduling_run = writers[p].run => InWindow(r, writers[p].run)

\* what the code does: inside the current window the run holds no row of
\* an earlier execution; outside it the earlier rows stay
C25_WindowCleared ==
    \A p \in Procs :
        UpdateCompletedAlone(p) =>
            \A r \in tables.rows :
                (r.scheduling_run = writers[p].run /\ InWindow(r, writers[p].run))
                    => r.by = p

\* an update that shrank the window has completed with its rows stored
C25_ShrunkAndStored ==
    \E p \in Procs :
        /\ UpdateCompletedAlone(p)
        /\ tables.runs[writers[p].run].start_date = tables.runs[writers[p].run].end_date
        /\ \E r \in tables.rows : r.by = p

(* ------------------------------ C26 ----------------------------------- *)
\* C26: in every reachable state the stored status of the run is one of
\* the values declared in STATUS_CHOICES
C26_StatusDeclared == run_status \in STATUS_CHOICES

\* what the code does: the task stores declared values only, the view also
\* FEASIBLE, SOLVER_ERROR and CREATION_ERROR
C26_StatusStored ==
    IF caller = "task" THEN run_status \in STATUS_CHOICES
    ELSE run_status \in STATUS_CHOICES \cup ViewEndStatuses

\* the task has stored a status at the end of an attempt
C26_TaskStored == pc = "done" /\ caller = "task" /\ run_status = "NO_SOLUTION"

(* ------------------------------ C27 ----------------------------------- *)
\* load_schedule_from_json has ended
CliEnded == pc = "done" /\ caller = "cli"

\* solve() returned, with no data or with a status other than OPTIMAL and
\* FEASIBLE
NothingUsable ==
    /\ solve_successful
    /\ (solution_data = NoData \/ solver_status \notin {OPTIMAL, FEASIBLE})

\* C27: when the solver returned no data or a status other than OPTIMAL or
\* FEASIBLE, load_schedule_from_json ends with status NO_SOLUTION stored
\* (saved together with the details 'No feasible solution found'); FAILURE
\* is stored only when the algorithm raised
C27_NoSolutionStored ==
    CliEnded =>
        /\ NothingUsable => run_status = "NO_SOLUTION"
        /\ run_status = "FAILURE" => ~solve_successful

\* what the code does: the command ends with SUCCESS when it accepted the
\* solution and with FAILURE in every other case
C27_FailureStored ==
    CliEnded =>
        run_status = IF solve_successful /\ CliAccepts(solution_data, solver_status)
                         THEN "SUCCESS" ELSE "FAILURE"

\* the command has ended after the solver found the instance infeasible
C27_EndedInfeasible == CliEnded /\ NothingUsable /\ solver_status = INFEASIBLE

(* ------------------------------ C28 ----------------------------------- *)
\* C28: no Assignment is stored for a soldier outside the run's
\* get_target_soldiers(): one that is not ACTIVE, belongs to no target unit
\* or sub-unit, or is listed in exclude_soldiers
C28_OnlyTargetSoldiers ==
    \A a \in assignments :
        a.soldier \in get_target_soldiers(scheduling_run, soldiers_db)

\* what the code does: the task and the view store rows for every soldier
\* of the table
C28_EverySoldier ==
    (pc = "done" /\ assignments # {}) =>
        {a.soldier : a \in assignments} = DOMAIN soldiers_db

\* rows are stored for a roster with a soldier that is not a target
C28_StoredWithOutsider ==
    /\ pc = "done" /\ assignments # {}
    /\ get_target_soldiers(scheduling_run, soldiers_db) # DOMAIN soldiers_db
    /\ get_target_soldiers(scheduling_run, soldiers_db) # {}

(* ------------------------------ C29 ----------------------------------- *)
\* the start and the end given by the command line or, failing that, by
\* the settings
GivenStart ==
    OverrideOr(solver_config.override_start, solver_config.settings,
               <<"startDate", "start_date">>)
GivenEnd ==
    OverrideOr(solver_config.override_end, solver_config.settings,
               <<"endDate", "end_date">>)
WindowBuilt == pc = "created" /\ caller = "window"

\* C29: each bound of the window is resolved on its own, from the command
\* line, else the settings, else the input shifts: a start that is given is
\* the resulting start_date whether or not an end is available, and a given
\* end is the resulting end_date likewise
C29_BoundsIndependent ==
    WindowBuilt =>
        /\ start_date = IF GivenStart # None THEN TheOne(GivenStart)
                        ELSE MinDate(ShiftDates(solver_config.shifts))
        /\ end_date = IF GivenEnd # None THEN TheOne(GivenEnd)
                      ELSE MaxDate(ShiftDates(solver_config.shifts))

\* what the code does: the given bounds are used when both are given, and
\* both bounds come from the shifts when either is missing
C29_BoundsTogether ==
    WindowBuilt =>
        IF GivenStart # None /\ GivenEnd # None
            THEN start_date = TheOne(GivenStart) /\ end_date = TheOne(GivenEnd)
            ELSE /\ start_date = MinDate(ShiftDates(solver_config.shifts))
                 /\ end_date = MaxDate(ShiftDates(solver_config.shifts))

\* a window was built from a start given on the command line and an end
\* given by the settings
C29_BothGiven ==
    /\ WindowBuilt
    /\ solver_config.override_start # None /\ solver_config.override_end = None
    /\ GivenEnd # None

(* ------------------------------ C30 ----------------------------------- *)
SimpleGenerated == pc = "done" /\ caller = "simple"
\* the names with status Base on day d in the generated schedule
SimpleOnBase(d) ==
    {name \in DOMAIN output.schedule : output.schedule[name][d] = "Base"}
\* the names available on day d
SimpleAvailable(d) ==
    LET names == available_today(soldiers_db, d, start_date, end_date)
    IN  {names[k] : k \in DOMAIN names}

\* C30: on every day of the generated schedule the soldiers on Base are
\* available that day (not unavailable, the weekend soldier on Saturdays
\* only) and their number is min(soldiers_per_day, number available), for
\* every value of the rotation counter
C30_FillsTheDay ==
    SimpleGenerated =>
        \A d \in start_date..end_date :
            /\ SimpleOnBase(d) \subseteq SimpleAvailable(d)
            /\ Cardinality(SimpleOnBase(d)) =
                   Min(soldiers_per_day, Cardinality(SimpleAvailable(d)))

\* what the code does: the soldiers on Base are available, and they are
\* those from the rotation position to the end of the available list, four
\* at most
C30_FromRotationOn ==
    SimpleGenerated =>
        \A d \in start_date..end_date :
            LET n == Cardinality(SimpleAvailable(d))
                r == current_rotation(soldiers_db, d - start_date)
                at == IF r >= n THEN 0 ELSE r
            IN  /\ SimpleOnBase(d) \subseteq SimpleAvailable(d)
                /\ Cardinality(SimpleOnBase(d)) = Min(soldiers_per_day, n - at)

\* a schedule was generated with the weekend soldier on Base on a Saturday
C30_WeekendSoldierOnBase ==
    /\ SimpleGenerated
    /\ \E d \in start_date..end_date :
           weekday(d) = 5 /\ WeekendSoldierName \in SimpleOnBase(d)

====
